---------------------------- MODULE Spec2Model ----------------------------
(***************************************************************************)
(* A model of the roadtraffic data pipeline (iarokr/roadtraffic):          *)
(*   utils/load.py     read_report, read_several_reports,                  *)
(*                     _process_initially                                  *)
(*   utils/process.py  aggregate, bagging, representor, rolling_window     *)
(*   utils/models.py   ModelResults (the keyed store of fitted models)     *)
(*   utils/funcs.py    date_to_day, day_to_date                            *)
(*   traffic_data_classes  AggregatedData, BaggedData: estimate_model      *)
(*   fintraffic.py     FintrafficTMS                                       *)
(*                                                                         *)
(* Tables (pandas DataFrames) are sequences of records, one record per     *)
(* row.  Floating-point columns are modelled by exact extended rationals   *)
(* <<n, d>> (d = 0 encodes +inf, -inf and NaN), so rounding error of IEEE  *)
(* doubles is outside the model.                                           *)
(***************************************************************************)
EXTENDS Integers, Sequences, FiniteSets, TLC

VARIABLES
    \* ---- utils/load.py ----
    rawfile,      \* per ordinal day: the unprocessed file of the station, or NoFile
    df,           \* the table returned by the last load / clean call
    call,         \* the last load / clean call: its arguments and its outcome
    \* ---- utils/process.py: aggregate, bagging ----
    data,         \* the cleaned table handed to aggregate
    agg_data,     \* the aggregated table (the caller's object, which bagging writes to)
    agg_call,     \* the last aggregate call: configuration and outcome
    bag_data,     \* the bagged table
    bag_call,     \* the last bagging call: configuration and outcome
    \* ---- utils/process.py: rolling_window ----
    input_data,   \* the cleaned table handed to rolling_window
    rolling_data, \* the table returned by rolling_window
    roll_call,    \* the last rolling_window call: configuration, outcome, per-lane rows
    \* ---- utils/process.py: representor ----
    rep_in,       \* the arguments (alpha, beta, x) of representor
    rep_out,      \* the value returned by the last representor call
    \* ---- utils/models.py: ModelResults ----
    _models,      \* ModelResults._models: composite key -> fitted model
    last_added,   \* history: composite key -> the model last added, and whether it replaced one
    store_call,   \* the last ModelResults call: operation, key, outcome, result
    \* ---- utils/funcs.py ----
    date_call,    \* the last day_to_date / date_to_day call: arguments and value
    \* ---- traffic_data_classes: AggregatedData, BaggedData ----
    traffic,      \* the data object: its kind, data, quantiles and models
    est_call,     \* the last estimate_model call: request and outcome
    \* ---- fintraffic.py: FintrafficTMS ----
    tms,          \* the attributes set on the station object after construction
    tms_call      \* the last method call on the station: arguments and outcome

loadVars  == <<rawfile, df, call>>
aggVars   == <<data, agg_data, agg_call>>
bagVars   == <<bag_data, bag_call>>
rollVars  == <<input_data, rolling_data, roll_call>>
repVars   == <<rep_in, rep_out>>
storeVars == <<_models, last_added, store_call>>
dateVars  == <<date_call>>
estVars   == <<traffic, est_call>>
tmsVars   == <<tms, tms_call>>
vars      == <<loadVars, aggVars, bagVars, rollVars, repVars, storeVars,
               dateVars, estVars, tmsVars>>

-----------------------------------------------------------------------------
(***************************************************************************)
(* Numbers.  A float is <<n, d>> with d >= 0 and gcd(n, d) = 1;            *)
(* <<1, 0>> is +inf, <<-1, 0>> is -inf, <<0, 0>> is NaN.                   *)
(***************************************************************************)
Abs(x) == IF x < 0 THEN -x ELSE x

Sign(x) == IF x < 0 THEN -1 ELSE IF x > 0 THEN 1 ELSE 0

RECURSIVE GCD(_, _)
GCD(a, b) == IF b = 0 THEN a ELSE GCD(b, a % b)

Norm(n, d) ==
    IF d = 0 THEN <<Sign(n), 0>>
    ELSE LET g == GCD(Abs(n), Abs(d))
         IN  <<(Sign(d) * n) \div g, Abs(d) \div g>>

Float(i) == <<i, 1>>

NaN == <<0, 0>>

IsNaN(a) == a[1] = 0 /\ a[2] = 0

IsFinite(a) == a[2] # 0

FMul(a, b) == Norm(a[1] * b[1], a[2] * b[2])

FDiv(a, b) == Norm(a[1] * b[2], a[2] * b[1])

FAdd(a, b) ==
    IF a[2] = 0 /\ b[2] = 0
    THEN (IF a[1] = b[1] THEN a ELSE NaN)
    ELSE Norm(a[1] * b[2] + b[1] * a[2], a[2] * b[2])

FLe(a, b) == ~IsNaN(a) /\ ~IsNaN(b) /\ (a = b \/ a[1] * b[2] < b[1] * a[2]
                                         \/ (a[2] = 0 /\ b[2] = 0 /\ a[1] <= b[1]))

FLt(a, b) == FLe(a, b) /\ a # b

\* astype(int) of a finite float: truncation towards zero
Trunc(a) == IF a[1] >= 0 THEN a[1] \div a[2] ELSE -((-a[1]) \div a[2])

RECURSIVE FSum(_)
FSum(s) == IF s = <<>> THEN Float(0) ELSE FAdd(Head(s), FSum(Tail(s)))

\* Series.max(): NaN entries are skipped; NaN when nothing is left
RECURSIVE FMax(_)
FMax(s) ==
    IF s = <<>> THEN NaN
    ELSE LET m == FMax(Tail(s))
         IN  IF IsNaN(Head(s)) THEN m
             ELSE IF IsNaN(m) \/ FLe(m, Head(s)) THEN Head(s) ELSE m

-----------------------------------------------------------------------------
(***************************************************************************)
(* Sequences as tables.                                                    *)
(***************************************************************************)
Column(t, c) == [i \in 1..Len(t) |-> t[i][c]]

RECURSIVE SetToSeq(_)
SetToSeq(S) ==
    IF S = {} THEN <<>>
    ELSE LET x == CHOOSE y \in S : TRUE IN <<x>> \o SetToSeq(S \ {x})

\* lexicographic order on tuples of integers of one length
RECURSIVE LexLess(_, _)
LexLess(a, b) ==
    /\ a # <<>>
    /\ \/ Head(a) < Head(b)
       \/ Head(a) = Head(b) /\ LexLess(Tail(a), Tail(b))

-----------------------------------------------------------------------------
(***************************************************************************)
(* utils/funcs.py and the calendar: a date is <<year, month, day>>;        *)
(* day_to_date is datetime.date(year, 1, 1) + timedelta(day - 1).          *)
(***************************************************************************)
IsLeap(y) == (y % 4 = 0 /\ y % 100 # 0) \/ y % 400 = 0

DaysInMonth(y, m) ==
    IF m = 2 THEN (IF IsLeap(y) THEN 29 ELSE 28)
    ELSE IF m \in {4, 6, 9, 11} THEN 30 ELSE 31

RECURSIVE AddDays(_, _, _)
AddDays(y, m, n) ==
    \* the date n days after the first of month m of year y, n >= 0
    IF n < DaysInMonth(y, m) THEN <<y, m, n + 1>>
    ELSE IF m = 12 THEN AddDays(y + 1, 1, n - DaysInMonth(y, m))
         ELSE AddDays(y, m + 1, n - DaysInMonth(y, m))

day_to_date(year, day) == AddDays(year, 1, day - 1)

\* (datetime.date(y, m, d) - datetime.date(y, 1, 1)).days
RECURSIVE DaysSinceNewYear(_, _, _)
DaysSinceNewYear(y, m, d) ==
    IF m = 1 THEN d - 1 ELSE DaysInMonth(y, m - 1) + DaysSinceNewYear(y, m - 1, d)

\* the day serial number within the year: an int
date_to_day(date) == Abs(DaysSinceNewYear(date[1], date[2], date[3])) + 1

-----------------------------------------------------------------------------
(***************************************************************************)
(* utils/load.py                                                           *)
(***************************************************************************)
\* pd.DataFrame(): the empty table
EmptyDF == <<>>

\* no table: the call raised, or was never made
NoTable == EmptyDF

\* a day the station has no file for (404, or no pickle under path_name)
NoFile == EmptyDF

\* hundredths of a second in one hour: the unit of total_time
HOUR == 60 * 60 * 100

Station == 146

Year == 2019

Days == {270, 271}

\* the direction a lane of station 146 belongs to (LANES: {1: [1, 2, 3], 2: [4, 5, 6]})
LaneDirection(lane) == IF lane <= 3 THEN 1 ELSE 2

\* one raw event row of the station; the clock columns follow total_time
RawRow(day, t, lane, vehicle, speed, faulty) ==
    [id |-> Station, year |-> Year, day |-> day,
     hour |-> t \div HOUR, minute |-> (t \div 6000) % 60,
     second |-> (t \div 100) % 60, hund_second |-> t % 100,
     lane |-> lane, direction |-> LaneDirection(lane),
     vehicle |-> vehicle, speed |-> speed,
     faulty |-> faulty, total_time |-> t]

\* the df["vehicle"].apply(...) lookups
is_car(x) == IF x = 1 THEN 1 ELSE 0

is_bus(x) == IF x = 3 THEN 1 ELSE 0

is_truck(x) == IF x = 2 \/ x = 4 \/ x = 5 \/ x = 6 \/ x = 7 THEN 1 ELSE 0

\* the column assignments of _process_initially (made on the table passed in)
Annotate(t, year, day) ==
    [i \in 1..Len(t) |->
        t[i] @@ [date |-> day_to_date(year, day),
                 cars |-> is_car(t[i].vehicle),
                 buses |-> is_bus(t[i].vehicle),
                 trucks |-> is_truck(t[i].vehicle)]]

FaultyKept(r, delete_if_faulty) == delete_if_faulty => r.faulty # 1

\* the direction filter forgotten
DirectionKept_any(r, direction) == TRUE

DirectionKept(r, direction) == r.direction = direction

\* the lower bound taken strictly
TimeKept_strict(r, hour_from, hour_to) ==
    r.total_time > hour_from * HOUR /\ r.total_time <= hour_to * HOUR

TimeKept(r, hour_from, hour_to) ==
    r.total_time >= hour_from * HOUR /\ r.total_time <= hour_to * HOUR

_process_initially(t, year, day, direction, hour_from, hour_to, delete_if_faulty) ==
    LET a == Annotate(t, year, day)
        Keep(r) == /\ FaultyKept(r, delete_if_faulty)
                   /\ TimeKept(r, hour_from, hour_to)
                   /\ DirectionKept(r, direction)
    IN  SelectSeq(a, Keep)

\* the assert hour_from < hour_to forgotten
ReportArgsOK_unordered(year, day, direction, hour_from, hour_to) ==
    /\ 0 <= hour_from /\ hour_from < 24
    /\ 0 < hour_to /\ hour_to <= 24
    /\ 1 <= day /\ day <= 366
    /\ 1995 <= year
    /\ (direction = 1 \/ direction = 2)

\* the asserts of read_report
ReportArgsOK(year, day, direction, hour_from, hour_to) ==
    /\ 0 <= hour_from /\ hour_from < 24
    /\ 0 < hour_to /\ hour_to <= 24
    /\ hour_from < hour_to
    /\ 1 <= day /\ day <= 366
    /\ 1995 <= year
    /\ (direction = 1 \/ direction = 2)

\* the asserts of read_several_reports
SeveralArgsOK(direction, hour_from, hour_to) ==
    /\ 0 <= hour_from /\ hour_from < 24
    /\ 0 < hour_to /\ hour_to <= 24
    /\ hour_from < hour_to
    /\ (direction = 1 \/ direction = 2)

(***************************************************************************)
(* read_report as a function of its arguments and of the files present:    *)
(* the outcome, the table returned, the number of files read and the       *)
(* number of tables that went through _process_initially.  The file of a   *)
(* day is the unprocessed one (the server's csv, or the local "_u" pickle  *)
(* under path_name); a missing file (404, or no pickle) gives the empty    *)
(* table.  Left out: the retry on HTTP 429, and the processed pickles      *)
(* that save=True writes and path_name prefers.                            *)
(***************************************************************************)
read_report(files, year, day, direction, hour_from, hour_to, delete_if_faulty) ==
    IF ~ReportArgsOK(year, day, direction, hour_from, hour_to)
    THEN [outcome |-> "AssertionError", df |-> EmptyDF, loads |-> 0, cleaned |-> 0]
    ELSE IF files[day] = NoFile
    THEN [outcome |-> "ok", df |-> EmptyDF, loads |-> 0, cleaned |-> 0]
    ELSE [outcome |-> "ok",
          df |-> _process_initially(files[day], year, day, direction,
                                    hour_from, hour_to, delete_if_faulty),
          loads |-> 1, cleaned |-> 1]

\* the loop of read_several_reports over year_day_list
RECURSIVE ReadLoop(_, _, _, _, _, _, _)
ReadLoop(acc, list, files, direction, hour_from, hour_to, delete_if_faulty) ==
    IF list = <<>> THEN acc
    ELSE LET r == read_report(files, Head(list)[1], Head(list)[2], direction,
                              hour_from, hour_to, delete_if_faulty)
         IN  IF r.outcome # "ok"
             THEN [acc EXCEPT !.outcome = r.outcome]
             ELSE ReadLoop([outcome |-> "ok",
                            df |-> IF r.df # EmptyDF THEN acc.df \o r.df ELSE acc.df,
                            loads |-> acc.loads + r.loads,
                            cleaned |-> acc.cleaned + r.cleaned],
                           Tail(list), files, direction, hour_from, hour_to,
                           delete_if_faulty)

read_several_reports(files, year_day_list, direction, hour_from, hour_to, delete_if_faulty) ==
    IF ~SeveralArgsOK(direction, hour_from, hour_to)
    THEN [outcome |-> "AssertionError", df |-> EmptyDF, loads |-> 0, cleaned |-> 0]
    ELSE LET r == ReadLoop([outcome |-> "ok", df |-> EmptyDF, loads |-> 0, cleaned |-> 0],
                           year_day_list, files, direction, hour_from,
                           hour_to, delete_if_faulty)
         IN  IF r.outcome = "ok" /\ r.df = EmptyDF
             THEN [r EXCEPT !.outcome = "NoDataError"]
             ELSE r

\* RecordCleaner's lane membership (RawData.clean(direction, lanes)); NoLanes: no set given
NoLanes == [given |-> FALSE, set |-> {}]

Lanes(S) == [given |-> TRUE, set |-> S]

LaneKept(r, lanes) == lanes.given => r.lane \in lanes.set

clean(t, year, day, direction, lanes, hour_from, hour_to, delete_if_faulty) ==
    LET Keep(r) == LaneKept(r, lanes)
    IN  SelectSeq(_process_initially(t, year, day, direction, hour_from,
                                     hour_to, delete_if_faulty), Keep)


-----------------------------------------------------------------------------
(***************************************************************************)
(* utils/process.py: aggregate                                             *)
(***************************************************************************)
\* the period multiplier left at 1 for seconds
period_multiplier_one(unit) == 1

period_multiplier(unit) == IF unit = "sec" THEN 60 ELSE 1

\* df["aggregation"] before astype: the clock of the row over the period
aggregation_float(r, period, unit) ==
    IF unit = "min"
    THEN FDiv(Float(r.hour * 60 + r.minute), Float(period))
    ELSE FDiv(Float(r.hour * 60 * 60 + r.minute * 60 + r.second), Float(period))

\* the groupby columns without the lane whatever by_lane says
GroupKey_nolane(r, by_lane) ==
    <<r.id, r.date[1], r.date[2], r.date[3], r.aggregation, r.direction>>

\* the groupby key of a row that carries its aggregation index
GroupKey(r, by_lane) ==
    IF by_lane
    THEN <<r.id, r.date[1], r.date[2], r.date[3], r.aggregation, r.direction, r.lane>>
    ELSE <<r.id, r.date[1], r.date[2], r.date[3], r.aggregation, r.direction>>

\* the keys of a table in groupby's order (sort=True): ascending
GroupKeys(t, by_lane) ==
    SortSeq(SetToSeq({GroupKey(t[i], by_lane) : i \in 1..Len(t)}), LexLess)

Members(t, key, by_lane) ==
    LET InGroup(r) == GroupKey(r, by_lane) = key IN SelectSeq(t, InGroup)

\* scipy.stats.hmean: n over the sum of reciprocals
hmean(s) == FDiv(Float(Len(s)), FSum([i \in 1..Len(s) |-> FDiv(Float(1), s[i])]))

RECURSIVE IntSum(_)
IntSum(s) == IF s = <<>> THEN 0 ELSE Head(s) + IntSum(Tail(s))

\* ("cars", "sum") in place of ("cars", "count")
period_flow_sum(m) == IntSum(Column(m, "cars"))

\* ("cars", "count"): the number of rows of the group
period_flow(m) == Len(m)

\* 60 * period_multiplier / aggregation_time_period * count
hourly(count, period, unit) ==
    FMul(FDiv(Float(60 * period_multiplier(unit)), Float(period)), Float(count))

\* strftime of pd.to_datetime(seconds, unit="s"): <<H, M>> or <<H, M, S>>
time_label(seconds, unit) ==
    LET s == Trunc(seconds)
    IN  IF unit = "sec"
        THEN <<(s \div 3600) % 24, (s \div 60) % 60, s % 60>>
        ELSE <<(s \div 3600) % 24, (s \div 60) % 60>>

\* one output row of aggregate: the group of key in the table t
AggRow(t, key, by_lane, period, unit) ==
    LET m     == Members(t, key, by_lane)
        speed == hmean(Column(m, "speed"))
        flow  == hourly(period_flow(m), period, unit)
        secs  == FDiv(FMul(Float(m[1].aggregation * 60), Float(period)),
                      Float(period_multiplier(unit)))
        row   == [id |-> m[1].id, date |-> m[1].date,
                  aggregation |-> m[1].aggregation, direction |-> m[1].direction,
                  period_speed |-> speed,
                  period_flow |-> period_flow(m),
                  period_cars |-> IntSum(Column(m, "cars")),
                  period_buses |-> IntSum(Column(m, "buses")),
                  period_trucks |-> IntSum(Column(m, "trucks")),
                  flow |-> flow,
                  cars |-> hourly(IntSum(Column(m, "cars")), period, unit),
                  buses |-> hourly(IntSum(Column(m, "buses")), period, unit),
                  trucks |-> hourly(IntSum(Column(m, "trucks")), period, unit),
                  density |-> FDiv(flow, speed),
                  seconds |-> secs,
                  time |-> time_label(secs, unit)]
    IN  IF by_lane THEN row @@ [lane |-> m[1].lane] ELSE row

(***************************************************************************)
(* aggregate as a function: the outcome and the table returned.  The unit  *)
(* is asserted; astype(int) raises on a non-finite aggregation (a period   *)
(* of 0 on a table with rows).                                             *)
(***************************************************************************)
aggregate(t, by_lane, period, unit) ==
    IF unit \notin {"min", "sec"}
    THEN [outcome |-> "AssertionError", table |-> NoTable]
    ELSE IF \E i \in 1..Len(t) : ~IsFinite(aggregation_float(t[i], period, unit))
    THEN [outcome |-> "ValueError", table |-> NoTable]
    ELSE LET withAgg == [i \in 1..Len(t) |->
                            t[i] @@ [aggregation |->
                                        Trunc(aggregation_float(t[i], period, unit))]]
             keys == GroupKeys(withAgg, by_lane)
         IN  [outcome |-> "ok",
              table |-> [k \in 1..Len(keys) |->
                            AggRow(withAgg, keys[k], by_lane, period, unit)]]

-----------------------------------------------------------------------------
(***************************************************************************)
(* utils/process.py: bagging                                               *)
(***************************************************************************)
\* astype({"grid_density": int, "grid_flow": int}) of one finite entry
CellIndex(a) == Trunc(a)

\* the number of rows counted without the row that opens the bag
bag_size_rest(m) == Len(m) - 1

\* ("id", "count"): the number of rows of the bag
bag_size(m) == Len(m)

\* max_density / grid_size_x and max_flow / grid_size_y
grid_density_size(t, grid_size_x) == FDiv(FMax(Column(t, "density")), Float(grid_size_x))

grid_flow_size(t, grid_size_y) == FDiv(FMax(Column(t, "flow")), Float(grid_size_y))

\* the quotients written over the density and flow columns as well
WithGrid_inplace(t, grid_size_x, grid_size_y) ==
    [i \in 1..Len(t) |->
        [grid_density |-> FDiv(t[i].density, grid_density_size(t, grid_size_x)),
         grid_flow |-> FDiv(t[i].flow, grid_flow_size(t, grid_size_y)),
         density |-> FDiv(t[i].density, grid_density_size(t, grid_size_x)),
         flow |-> FDiv(t[i].flow, grid_flow_size(t, grid_size_y))] @@ t[i]]

\* the table of the caller after the two column assignments: the grid
\* columns hold the quotients as floats, written over columns of that name
WithGrid(t, grid_size_x, grid_size_y) ==
    [i \in 1..Len(t) |->
        [grid_density |-> FDiv(t[i].density, grid_density_size(t, grid_size_x)),
         grid_flow |-> FDiv(t[i].flow, grid_flow_size(t, grid_size_y))] @@ t[i]]

BagKey(r) == <<r.id, r.direction, r.grid_density, r.grid_flow>>

BagMembers(t, key) ==
    LET InBag(r) == BagKey(r) = key IN SelectSeq(t, InBag)

\* one bagged row: the bag of key in the table t of n rows
BagRow(t, key, n) ==
    LET m == BagMembers(t, key)
        sum_flow == FSum(Column(m, "flow"))
        sum_density == FSum(Column(m, "density"))
    IN  [id |-> key[1], direction |-> key[2],
         grid_density |-> key[3], grid_flow |-> key[4],
         bag_size |-> bag_size(m),
         sum_flow |-> sum_flow,
         sum_density |-> sum_density,
         centroid_flow |-> FDiv(sum_flow, Float(bag_size(m))),
         centroid_density |-> FDiv(sum_density, Float(bag_size(m))),
         weight |-> FDiv(Float(bag_size(m)), Float(n))]

(***************************************************************************)
(* bagging as a function: the outcome, the table returned and the table    *)
(* of the caller as the call leaves it.  astype raises on a quotient that  *)
(* is not finite, after the columns were written; on a table without rows  *)
(* the reduction ratio of the final print divides by zero.                 *)
(***************************************************************************)
bagging(t, grid_size_x, grid_size_y) ==
    LET floats == WithGrid(t, grid_size_x, grid_size_y)
    IN  IF \E i \in 1..Len(t) : ~IsFinite(floats[i].grid_density)
                                    \/ ~IsFinite(floats[i].grid_flow)
        THEN [outcome |-> "ValueError", table |-> NoTable, agg_data |-> floats]
        ELSE IF Len(t) = 0
        THEN [outcome |-> "ZeroDivisionError", table |-> NoTable, agg_data |-> floats]
        ELSE LET ints == [i \in 1..Len(t) |->
                            [grid_density |-> CellIndex(floats[i].grid_density),
                             grid_flow |-> CellIndex(floats[i].grid_flow)] @@ t[i]]
                 keys == SortSeq(SetToSeq({BagKey(ints[i]) : i \in 1..Len(ints)}),
                                 LexLess)
             IN  [outcome |-> "ok",
                  table |-> [k \in 1..Len(keys) |-> BagRow(ints, keys[k], Len(ints))],
                  agg_data |-> floats]

-----------------------------------------------------------------------------
(***************************************************************************)
(* utils/process.py: representor.  alpha and beta hold at least one piece. *)
(***************************************************************************)
\* ndarray.min: the least entry of a non-empty list, NaN if one is NaN
RECURSIVE FMin(_)
FMin(s) ==
    IF Len(s) = 1 THEN Head(s)
    ELSE LET m == FMin(Tail(s))
         IN  IF IsNaN(Head(s)) \/ IsNaN(m) THEN NaN
             ELSE IF FLe(Head(s), m) THEN Head(s) ELSE m

\* np.matmul(beta_r, x_t): one row per piece, one column per query point
matmul(beta, x) == [i \in 1..Len(beta) |-> [j \in 1..Len(x) |-> FMul(beta[i], x[j])]]

\* alpha_r + mult, a column of one entry broadcast over the rows of the other
mult_a(alpha, mult) ==
    [i \in 1..(IF Len(alpha) = 1 THEN Len(mult) ELSE Len(alpha)) |->
        [j \in 1..Len(mult[1]) |->
            FAdd(alpha[IF Len(alpha) = 1 THEN 1 ELSE i],
                 mult[IF Len(mult) = 1 THEN 1 ELSE i][j])]]

\* min(axis=1): the least value of each piece over the query points
g_hat_min_axis1(m) ==
    [i \in 1..Len(m) |-> IF Len(m[i]) = 0 THEN NaN ELSE FMin(m[i])]

\* min(axis=0): the least value of each query point over the pieces
g_hat_min(m) ==
    [j \in 1..Len(m[1]) |-> FMin([i \in 1..Len(m) |-> m[i][j]])]

\* the outcome and the array returned; operands that do not broadcast raise
representor(alpha, beta, x) ==
    IF Len(alpha) # Len(beta) /\ Len(alpha) # 1 /\ Len(beta) # 1
    THEN [outcome |-> "ValueError", value |-> <<>>]
    ELSE [outcome |-> "ok", value |-> g_hat_min(mult_a(alpha, matmul(beta, x)))]

-----------------------------------------------------------------------------
(***************************************************************************)
(* utils/process.py: rolling_window.  Times are hundredths of a second     *)
(* since midnight, as total_time is.                                       *)
(***************************************************************************)
\* window_size_mult, gap_size_mult: seconds in one unit ("min" or "sec")
size_mult(unit) == IF unit = "min" THEN 60 ELSE 1

\* range(start, stop, step) of Python for a step other than 0
RECURSIVE range(_, _, _)
range(start, stop, step) ==
    IF (step > 0 /\ start < stop) \/ (step < 0 /\ start > stop)
    THEN <<start>> \o range(start + step, stop, step)
    ELSE <<>>

\* the begin times of the windows
begin_times(hour_from, hour_to, window_interval, gap_interval, wu, gu) ==
    range(hour_from * HOUR,
          hour_to * HOUR - window_interval * size_mult(wu) * 100,
          gap_interval * size_mult(gu) * 100)

\* np.sort(column.unique())
sorted_unique(t, c) ==
    SortSeq(SetToSeq({t[i][c] : i \in 1..Len(t)}), LAMBDA a, b : a < b)

\* the rows of the time span [begin_time, end_time), all lanes
span_rows(t, begin_time, end_time) ==
    SelectSeq(t, LAMBDA r : r.total_time >= begin_time /\ r.total_time < end_time)

\* the rows of the time span on one lane
lane_rows(t, begin_time, end_time, lane) ==
    SelectSeq(span_rows(t, begin_time, end_time), LAMBDA r : r.lane = lane)

\* flow = len(data) * 60 / window_interval (window_interval is not 0)
window_flow(n, window_interval, wu) == Norm(n * 60, window_interval)

\* hmean of the speeds of the rows, 0 for no row
window_speed_zero(rows) == IF rows = <<>> THEN Float(0) ELSE hmean(Column(rows, "speed"))

\* scipy.stats.hmean(data.speed): NaN for no row
window_speed(rows) == hmean(Column(rows, "speed"))

\* one appended row: the window of (year, day, lane) that begins at begin_time
RollRow(t, year, day, lane, begin_time, window_interval, wu) ==
    LET end_time == begin_time + window_interval * size_mult(wu) * 100
        rows     == lane_rows(t, begin_time, end_time, lane)
        flow     == window_flow(Len(rows), window_interval, wu)
        speed    == window_speed(rows)
    IN  [year |-> year, day |-> day, lane |-> lane,
         begin_time |-> begin_time, end_time |-> end_time,
         flow |-> flow, density |-> FDiv(flow, speed), speed |-> speed,
         speed_all_lanes |-> window_speed(span_rows(t, begin_time, end_time)),
         cars |-> IntSum(Column(rows, "cars")),
         buses |-> IntSum(Column(rows, "buses")),
         trucks |-> IntSum(Column(rows, "trucks"))]

\* the list rollings: years, days, lanes and begin times nested in this order
rollings(t, begins, window_interval, wu) ==
    LET years == sorted_unique(t, "year")
        days  == sorted_unique(t, "day")
        lanes == sorted_unique(t, "lane")
        nb    == Len(begins)
        nl    == Len(lanes)
        nd    == Len(days)
    IN  [k \in 1..(Len(years) * nd * nl * nb) |->
            RollRow(t, years[((k - 1) \div (nb * nl * nd)) + 1],
                       days[(((k - 1) \div (nb * nl)) % nd) + 1],
                       lanes[(((k - 1) \div nb) % nl) + 1],
                       begins[((k - 1) % nb) + 1], window_interval, wu)]

\* Series.mean(): NaN entries are skipped; NaN when nothing is left
FMean(s) ==
    LET kept == SelectSeq(s, LAMBDA a : ~IsNaN(a))
    IN  IF kept = <<>> THEN NaN ELSE FDiv(FSum(kept), Float(Len(kept)))

\* the groupby key of the collapse
RollKey(r) == <<r.year, r.day, r.begin_time, r.end_time>>

\* speed=("speed", "mean"): the mean of the lanes' own speeds
collapsed_speed_lanes(m) == FMean(Column(m, "speed"))

\* speed=("speed_all_lanes", "mean")
collapsed_speed(m) == FMean(Column(m, "speed_all_lanes"))

\* one row of the collapsed table: the per-lane rows of one key
CollapsedRow(per_lane, key) ==
    LET m     == SelectSeq(per_lane, LAMBDA r : RollKey(r) = key)
        flow  == FSum(Column(m, "flow"))
        speed == collapsed_speed(m)
    IN  [year |-> key[1], day |-> key[2], begin_time |-> key[3], end_time |-> key[4],
         flow |-> flow, speed |-> speed,
         cars |-> IntSum(Column(m, "cars")),
         buses |-> IntSum(Column(m, "buses")),
         trucks |-> IntSum(Column(m, "trucks")),
         density |-> FDiv(flow, speed)]

\* groupby(["year", "day", "begin_time", "end_time"]): the keys in order
collapse(per_lane) ==
    LET keys == SortSeq(SetToSeq({RollKey(per_lane[i]) : i \in 1..Len(per_lane)}), LexLess)
    IN  [k \in 1..Len(keys) |-> CollapsedRow(per_lane, keys[k])]

\* drop(columns=["speed_all_lanes"])
drop_speed_all_lanes(r) ==
    [c \in (DOMAIN r) \ {"speed_all_lanes"} |-> r[c]]

\* strftime("%H:%M:%S") of end_time // 100 seconds since the epoch
roll_time(end_time) ==
    LET sec == end_time \div 100
    IN  <<(sec \div 3600) % 24, (sec \div 60) % 60, sec % 60>>

(***************************************************************************)
(* rolling_window as a function: the outcome, the table returned and the   *)
(* per-lane table it was made from.  The units are checked first; on a     *)
(* table with rows range() raises on a step of 0, and the first window     *)
(* divides by a window_interval of 0.  On a table without rows, or with    *)
(* an empty range, no row is appended and the table returned has no rows.  *)
(***************************************************************************)
rolling_window(t, hour_from, hour_to, window_interval, gap_interval, wu, gu, by_lane) ==
    IF wu \notin {"min", "sec"} \/ gu \notin {"min", "sec"}
    THEN [outcome |-> "ValueError", table |-> NoTable, per_lane |-> NoTable]
    ELSE IF t # EmptyDF /\ gap_interval = 0
    THEN [outcome |-> "ValueError", table |-> NoTable, per_lane |-> NoTable]
    ELSE LET begins == IF t = EmptyDF THEN <<>>
                       ELSE begin_times(hour_from, hour_to, window_interval,
                                        gap_interval, wu, gu)
         IN  IF begins # <<>> /\ window_interval = 0
             THEN [outcome |-> "ZeroDivisionError", table |-> NoTable,
                   per_lane |-> NoTable]
             ELSE LET per_lane == rollings(t, begins, window_interval, wu)
                      shaped   == IF by_lane
                                  THEN [k \in 1..Len(per_lane) |->
                                           drop_speed_all_lanes(per_lane[k])]
                                  ELSE collapse(per_lane)
                  IN  [outcome |-> "ok",
                       table |-> [k \in 1..Len(shaped) |->
                                     shaped[k] @@ [time |-> roll_time(shaped[k].end_time)]],
                       per_lane |-> per_lane]

-----------------------------------------------------------------------------
(***************************************************************************)
(* utils/models.py: ModelResults.  A fitted model is the object of the     *)
(* optimisation library: its sample x, y (and z when has_z), its frontier, *)
(* its coefficients alpha and beta, its status, its context coefficient.   *)
(***************************************************************************)
\* None as a part of a composite key
None == "None"

NoResult == <<>>

\* an insertion that keeps the model a key already holds
_add_model_keep(models, model, key) ==
    [k \in (DOMAIN models) \cup {key} |->
        IF k \in DOMAIN models THEN models[k] ELSE model]

\* self._models[quantile, penalty, eta, context] = model
_add_model(models, model, key) ==
    [k \in (DOMAIN models) \cup {key} |-> IF k = key THEN model ELSE models[k]]

\* the lookup answering an absent key with an empty result
Lookup_default(models, key, result) ==
    IF key \in DOMAIN models
    THEN [outcome |-> "ok", result |-> result]
    ELSE [outcome |-> "ok", result |-> NoResult]

\* assert (quantile, penalty, eta, context) in self._models.keys()
Lookup(models, key, result) ==
    IF key \in DOMAIN models
    THEN [outcome |-> "ok", result |-> result]
    ELSE [outcome |-> "AssertionError", result |-> NoResult]

get_frontier(models, key) ==
    Lookup(models, key, IF key \in DOMAIN models THEN models[key].frontier ELSE NoResult)

\* (np.stack([alpha, beta], axis=0)).T
get_coefficients(models, key) ==
    Lookup(models, key,
           IF key \in DOMAIN models
           THEN [i \in 1..Len(models[key].alpha) |->
                    <<models[key].alpha[i], models[key].beta[i]>>]
           ELSE NoResult)

get_number_of_segments(models, key) ==
    Lookup(models, key, IF key \in DOMAIN models THEN Len(models[key].alpha) ELSE NoResult)

\* the density column sorted on its own, the other columns left in place
SortedSample_columns(m, context) ==
    LET dens == SortSeq(m.x, FLt)
    IN  [i \in 1..Len(m.x) |->
            [density |-> dens[i], flow |-> m.y[i], flow_estimate |-> m.frontier[i]]
            @@ (IF context = None THEN <<>>
                ELSE [context |-> m.z[i], context_estimate |-> m.lamda[1]])]

\* the rows of the stacked sample in the order of np.argsort on the density
SortedSample(m, context) ==
    LET ByDensity(a, b) == FLt(a.density, b.density)
    IN  SortSeq([i \in 1..Len(m.x) |->
                    [density |-> m.x[i], flow |-> m.y[i], flow_estimate |-> m.frontier[i]]
                    @@ (IF context = None THEN <<>>
                        ELSE [context |-> m.z[i], context_estimate |-> m.lamda[1]])],
                ByDensity)

\* the table of get_estimate: speed is computed from the sorted columns,
\* speed_estimate from y_hat as the model returned it over the sorted x
Estimate(m, context) ==
    LET rows == SortedSample(m, context)
    IN  [i \in 1..Len(rows) |->
            rows[i] @@ [speed |-> FDiv(rows[i].flow, rows[i].density),
                        speed_estimate |-> FDiv(m.frontier[i], rows[i].density)]]

get_estimate(models, key) ==
    Lookup(models, key,
           IF key \in DOMAIN models THEN Estimate(models[key], key[4]) ELSE NoResult)

get_problem_status(models, key) ==
    Lookup(models, key, IF key \in DOMAIN models THEN models[key].status ELSE NoResult)

\* get_lamda()[0]; the library raises for a model fitted without context
get_context_estimate(models, key) ==
    IF key \in DOMAIN models /\ ~models[key].has_z
    THEN [outcome |-> "Exception", result |-> NoResult]
    ELSE Lookup(models, key,
                IF key \in DOMAIN models THEN models[key].lamda[1] ELSE NoResult)

-----------------------------------------------------------------------------
(***************************************************************************)
(* SpecLoad: the station's files are drawn once; read_report,              *)
(* read_several_reports and clean are then called with any arguments.      *)
(* The three keep no state between calls (df and call are overwritten and  *)
(* never read), so a second call reaches no state a first call does not:   *)
(* each behaviour makes one call.                                          *)
(***************************************************************************)
\* rows per station (all days together) in the files drawn
MaxFileRows == 1

\* 05:59:59.99, 06:00:00.00, 20:00:00.00, 20:30:00.00 in hundredths of a second
LoadTimes == {6 * HOUR - 1, 6 * HOUR, 20 * HOUR, 20 * HOUR + HOUR \div 2}

LoadLanes == {1, 2, 4}

\* what varies in a row of a file: <<total_time, lane, faulty>>
LoadShapes == LoadTimes \X LoadLanes \X {0, 1}

\* a csv file lists the day's vehicles in the order they passed
Chronological(t) == \A i \in 1..Len(t) - 1 : t[i] = t[i + 1] \/ LexLess(t[i], t[i + 1])

LoadFileShapes ==
    [n \in 0..MaxFileRows |->
        UNION {{t \in [1..k -> LoadShapes] : Chronological(t)} : k \in 0..n}]

LoadFile(day, shape) ==
    [i \in 1..Len(shape) |->
        RawRow(day, shape[i][1], shape[i][2], IF shape[i][2] = 1 THEN 1 ELSE 2,
               Float(80), shape[i][3])]

DirectionArgs == {0, 1, 2}

\* (hour_from, hour_to) pairs, valid and invalid
HourArgs == {<<6, 20>>, <<0, 24>>, <<6, 24>>, <<6, 25>>, <<-1, 20>>,
             <<24, 25>>, <<20, 6>>, <<6, 6>>}

DayLists == {<<<<Year, 270>>>>, <<<<Year, 270>>, <<Year, 271>>>>}

LaneArgs == {NoLanes, Lanes({1}), Lanes({1, 2})}

NoCall == [op |-> "none", days |-> <<>>, direction |-> 0, hour_from |-> 0,
           hour_to |-> 0, delete_if_faulty |-> FALSE, lanes |-> NoLanes,
           outcome |-> "none", loads |-> 0, cleaned |-> 0]

LoadIdle == rawfile = [d \in Days |-> NoFile] /\ df = NoTable /\ call = NoCall

AggIdle == data = EmptyDF /\ agg_data = NoTable /\ agg_call = [outcome |-> "none"]

BagIdle == bag_data = NoTable /\ bag_call = [outcome |-> "none"]

RollIdle ==
    input_data = EmptyDF /\ rolling_data = NoTable /\ roll_call = [outcome |-> "none"]

RepIdle ==
    /\ rep_in = [alpha |-> <<>>, beta |-> <<>>, x |-> <<>>]
    /\ rep_out = [outcome |-> "none", value |-> <<>>]

StoreIdle == _models = <<>> /\ last_added = <<>> /\ store_call = [op |-> "none"]

DateIdle == date_call = [op |-> "none"]

EstIdle == traffic = <<>> /\ est_call = [outcome |-> "none"]

TmsIdle == tms = <<>> /\ tms_call = [op |-> "none"]

InitLoad ==
    /\ \E a \in LoadFileShapes[MaxFileRows] :
         \E b \in LoadFileShapes[MaxFileRows - Len(a)] :
            rawfile = [d \in Days |-> IF d = 270 THEN LoadFile(d, a) ELSE LoadFile(d, b)]
    /\ df = NoTable
    /\ call = NoCall
    /\ AggIdle /\ BagIdle /\ RollIdle /\ RepIdle /\ StoreIdle
    /\ DateIdle /\ EstIdle /\ TmsIdle

Returned(r) == IF r.outcome = "ok" THEN r.df ELSE NoTable

ReadReport ==
    \E day \in Days, direction \in DirectionArgs, h \in HourArgs, del \in BOOLEAN :
        LET r == read_report(rawfile, Year, day, direction, h[1], h[2], del)
        IN  /\ call = NoCall
            /\ df' = Returned(r)
            /\ call' = [op |-> "read_report", days |-> <<<<Year, day>>>>,
                        direction |-> direction, hour_from |-> h[1],
                        hour_to |-> h[2], delete_if_faulty |-> del,
                        lanes |-> NoLanes, outcome |-> r.outcome,
                        loads |-> r.loads, cleaned |-> r.cleaned]
            /\ UNCHANGED <<rawfile, aggVars, bagVars, rollVars, repVars, storeVars,
                           dateVars, estVars, tmsVars>>

ReadSeveralReports ==
    \E list \in DayLists, direction \in DirectionArgs, h \in HourArgs, del \in BOOLEAN :
        LET r == read_several_reports(rawfile, list, direction, h[1], h[2], del)
        IN  /\ call = NoCall
            /\ df' = Returned(r)
            /\ call' = [op |-> "read_several_reports", days |-> list,
                        direction |-> direction, hour_from |-> h[1],
                        hour_to |-> h[2], delete_if_faulty |-> del,
                        lanes |-> NoLanes, outcome |-> r.outcome,
                        loads |-> r.loads, cleaned |-> r.cleaned]
            /\ UNCHANGED <<rawfile, aggVars, bagVars, rollVars, repVars, storeVars,
                           dateVars, estVars, tmsVars>>

\* RawData.clean on the loaded file of one day, with arguments the loaders accept
Clean ==
    \E day \in Days, direction \in {1, 2}, h \in HourArgs, del \in BOOLEAN, lanes \in LaneArgs :
        /\ call = NoCall
        /\ rawfile[day] # NoFile
        /\ ReportArgsOK(Year, day, direction, h[1], h[2])
        /\ df' = clean(rawfile[day], Year, day, direction, lanes, h[1], h[2], del)
        /\ call' = [op |-> "clean", days |-> <<<<Year, day>>>>,
                    direction |-> direction, hour_from |-> h[1],
                    hour_to |-> h[2], delete_if_faulty |-> del,
                    lanes |-> lanes, outcome |-> "ok", loads |-> 0, cleaned |-> 1]
        /\ UNCHANGED <<rawfile, aggVars, bagVars, rollVars, repVars, storeVars,
                       dateVars, estVars, tmsVars>>

NextLoad == ReadReport \/ ReadSeveralReports \/ Clean

SpecLoad == InitLoad /\ [][NextLoad]_vars

-----------------------------------------------------------------------------
(***************************************************************************)
(* SpecAgg: a cleaned table is loaded once and aggregate is called on it.  *)
(* aggregate is a function of its arguments and keeps nothing, so one call *)
(* per behaviour reaches every table it can return.                        *)
(***************************************************************************)
MaxAggRows == 2

\* 06:00:00.00, 06:04:30.00 and 06:05:00.00: two rows of one five-minute
\* period and one of the next; three different periods of thirty seconds
AggTimes == {6 * HOUR, 6 * HOUR + 4 * 6000 + 3000, 6 * HOUR + 5 * 6000}

AggLanes == {1, 2}

\* vehicle classes: 1 car, 2 truck, 3 bus, 7 another truck class
AggVehicles == {1, 2, 3, 7}

\* the speed recorded for a vehicle; the one of class 7 was recorded at 0
AggSpeed(vehicle) ==
    IF vehicle = 1 THEN 90 ELSE IF vehicle = 2 THEN 60 ELSE IF vehicle = 3 THEN 45 ELSE 0

AggShapes == Days \X AggTimes \X AggLanes \X AggVehicles

\* the chronological row lists of exactly n rows
RECURSIVE AggShapeLists(_)
AggShapeLists(n) ==
    IF n = 0 THEN {<<>>}
    ELSE {Append(t, x) : t \in AggShapeLists(n - 1),
                         x \in AggShapes} \cap
         {t \in Seq(AggShapes) : Len(t) = n /\ Chronological(t)}

AggFile(day, shape) ==
    LET OfDay(x) == x[1] = day
        rows == SelectSeq(shape, OfDay)
    IN  [i \in 1..Len(rows) |->
            RawRow(day, rows[i][2], rows[i][3], rows[i][4],
                   Float(AggSpeed(rows[i][4])), 0)]

\* the table the loader returns for the files of the two days
AggInput(shape) ==
    read_several_reports([d \in Days |-> AggFile(d, shape)],
                         <<<<Year, 270>>, <<Year, 271>>>>, 1, 0, 24, TRUE).df

AggInputs == {AggInput(shape) : shape \in UNION {AggShapeLists(n) : n \in 1..MaxAggRows}}

AggPeriods == {5, 7}

AggUnits == {"min", "sec", "hour"}

InitAgg ==
    /\ data \in AggInputs
    /\ agg_data = NoTable
    /\ agg_call = [outcome |-> "none"]
    /\ LoadIdle /\ BagIdle /\ RollIdle /\ RepIdle /\ StoreIdle
    /\ DateIdle /\ EstIdle /\ TmsIdle

Aggregate ==
    \E by_lane \in BOOLEAN, period \in AggPeriods, unit \in AggUnits :
        LET r == aggregate(data, by_lane, period, unit)
        IN  /\ agg_call.outcome = "none"
            /\ agg_data' = r.table
            /\ agg_call' = [by_lane |-> by_lane, period |-> period, unit |-> unit,
                            outcome |-> r.outcome]
            /\ UNCHANGED <<data, loadVars, bagVars, rollVars, repVars, storeVars,
                           dateVars, estVars, tmsVars>>

NextAgg == Aggregate

SpecAgg == InitAgg /\ [][NextAgg]_vars

-----------------------------------------------------------------------------
(***************************************************************************)
(* SpecBag: a table aggregated over five-minute buckets is bagged, and     *)
(* the caller may repeat either call with the arguments of the first:      *)
(* aggregate on the cleaned table, bagging on the aggregated table as the  *)
(* first bagging left it (bagging writes its two grid columns on the table *)
(* it is given).                                                           *)
(***************************************************************************)
MaxBagRows == 4

\* three five-minute buckets
BagTimes == {6 * HOUR, 6 * HOUR + 5 * 6000, 6 * HOUR + 10 * 6000}

\* a vehicle recorded at speed 0 makes a bucket of space-mean speed 0
BagSpeeds == {0, 45, 90}

BagShapes == BagTimes \X BagSpeeds

RECURSIVE BagShapeLists(_)
BagShapeLists(n) ==
    IF n = 0 THEN {<<>>}
    ELSE {Append(t, x) : t \in BagShapeLists(n - 1),
                         x \in BagShapes} \cap
         {t \in Seq(BagShapes) : Len(t) = n /\ Chronological(t)}

BagFile(shape) ==
    [i \in 1..Len(shape) |-> RawRow(270, shape[i][1], 1, 1, Float(shape[i][2]), 0)]

\* the cleaned table of day 270, direction 1
BagInput(shape) ==
    read_report([d \in Days |-> IF d = 270 THEN BagFile(shape) ELSE NoFile],
                Year, 270, 1, 0, 24, TRUE).df

BagInputs == {BagInput(shape) : shape \in UNION {BagShapeLists(n) : n \in 1..MaxBagRows}}

BagGridX == {-1, 0, 1, 2, 3}

BagGridY == {0, 1, 2}

InitBag ==
    /\ data \in BagInputs
    /\ agg_data = aggregate(data, FALSE, 5, "min").table
    /\ agg_call = [by_lane |-> FALSE, period |-> 5, unit |-> "min", outcome |-> "ok",
                   rerun |-> FALSE, again |-> NoTable]
    /\ BagIdle
    /\ LoadIdle /\ RollIdle /\ RepIdle /\ StoreIdle
    /\ DateIdle /\ EstIdle /\ TmsIdle

Bagging ==
    \E grid_size_x \in BagGridX, grid_size_y \in BagGridY :
        LET r == bagging(agg_data, grid_size_x, grid_size_y)
        IN  /\ IF bag_call.outcome = "none" THEN TRUE
               ELSE /\ grid_size_x = bag_call.grid_size_x
                    /\ grid_size_y = bag_call.grid_size_y
            /\ bag_data' = r.table
            /\ agg_data' = r.agg_data
            /\ bag_call' = [grid_size_x |-> grid_size_x, grid_size_y |-> grid_size_y,
                            rows |-> Len(agg_data), outcome |-> r.outcome,
                            rerun |-> bag_call.outcome # "none"]
            /\ UNCHANGED <<data, agg_call, loadVars, rollVars, repVars, storeVars,
                           dateVars, estVars, tmsVars>>

\* aggregate called again on the cleaned table with the configuration of the
\* first call; the table it returns is a new object, kept in agg_call.again
Reaggregate ==
    LET r == aggregate(data, agg_call.by_lane, agg_call.period, agg_call.unit)
    IN  /\ agg_call' = [agg_call EXCEPT !.rerun = TRUE, !.again = r.table,
                                        !.outcome = r.outcome]
        /\ UNCHANGED <<data, agg_data, bagVars, loadVars, rollVars, repVars, storeVars,
                       dateVars, estVars, tmsVars>>

NextBag == Bagging \/ Reaggregate

SpecBag == InitBag /\ [][NextBag]_vars

-----------------------------------------------------------------------------
(***************************************************************************)
(* SpecRoll: rolling_window on the cleaned table of the two days, for      *)
(* window and gap configurations in both units, valid and not.  The        *)
(* function keeps nothing, so one call per behaviour reaches every table   *)
(* it can return.                                                          *)
(***************************************************************************)
MaxRollRows == 2

\* 06:00:00.00, 06:20:00.00 and 06:40:00.00
RollTimes == {6 * HOUR, 6 * HOUR + 20 * 6000, 6 * HOUR + 40 * 6000}

RollLanes == {1, 2}

\* cars at 90 km/h on lane 1, trucks at 60 km/h on lane 2
RollVehicle(lane) == IF lane = 1 THEN 1 ELSE 2

RollSpeed(lane) == IF lane = 1 THEN 90 ELSE 60

RollShapes == Days \X RollTimes \X RollLanes

\* the chronological row lists of exactly n rows
RECURSIVE RollShapeLists(_)
RollShapeLists(n) ==
    IF n = 0 THEN {<<>>}
    ELSE {Append(t, x) : t \in RollShapeLists(n - 1),
                         x \in RollShapes} \cap
         {t \in Seq(RollShapes) : Len(t) = n /\ Chronological(t)}

RollFile(day, shape) ==
    LET OfDay(x) == x[1] = day
        rows == SelectSeq(shape, OfDay)
    IN  [i \in 1..Len(rows) |->
            RawRow(day, rows[i][2], rows[i][3], RollVehicle(rows[i][3]),
                   Float(RollSpeed(rows[i][3])), 0)]

\* the table the loader returns for the files of the two days
RollInput(shape) ==
    read_several_reports([d \in Days |-> RollFile(d, shape)],
                         <<<<Year, 270>>, <<Year, 271>>>>, 1, 0, 24, TRUE).df

RollInputs ==
    {RollInput(shape) : shape \in UNION {RollShapeLists(n) : n \in 1..MaxRollRows}}

\* <<hour_from, hour_to>>
RollHours == {<<6, 7>>, <<6, 8>>}

\* <<window_interval, window_interval_unit, gap_interval, gap_interval_unit>>
RollConfigs ==
    {<<30, "min", 30, "min">>, <<30, "min", 15, "min">>, <<20, "min", 30, "min">>,
     <<1200, "sec", 600, "sec">>, <<20, "min", 600, "sec">>,
     <<30, "hour", 30, "min">>, <<30, "min", 30, "hour">>,
     <<0, "min", 30, "min">>, <<30, "min", 0, "min">>,
     <<-30, "min", 30, "min">>, <<120, "min", -30, "min">>}

InitRoll ==
    /\ input_data \in RollInputs
    /\ rolling_data = NoTable
    /\ roll_call = [outcome |-> "none"]
    /\ LoadIdle /\ AggIdle /\ BagIdle /\ RepIdle /\ StoreIdle
    /\ DateIdle /\ EstIdle /\ TmsIdle

RollingWindow ==
    \E hours \in RollHours, c \in RollConfigs, by_lane \in BOOLEAN :
        LET r == rolling_window(input_data, hours[1], hours[2], c[1], c[3], c[2], c[4],
                                by_lane)
        IN  /\ roll_call.outcome = "none"
            /\ rolling_data' = r.table
            /\ roll_call' = [hour_from |-> hours[1], hour_to |-> hours[2],
                             window_interval |-> c[1], window_interval_unit |-> c[2],
                             gap_interval |-> c[3], gap_interval_unit |-> c[4],
                             by_lane |-> by_lane, outcome |-> r.outcome,
                             per_lane |-> r.per_lane]
            /\ UNCHANGED <<input_data, loadVars, aggVars, bagVars, repVars, storeVars,
                           dateVars, estVars, tmsVars>>

NextRoll == RollingWindow

SpecRoll == InitRoll /\ [][NextRoll]_vars

-----------------------------------------------------------------------------
(***************************************************************************)
(* SpecRep: representor is called once on drawn coefficients and points.   *)
(***************************************************************************)
MaxPieces == 2

MaxPoints == 3

RepAlphas == {0, 10}

RepBetas == {-1, 1}

RepPoints == {0, 5, 10}

\* the arrays of floats of 1 to n entries over the integers of S
Arrays(S, lo, n) == UNION {[1..k -> {Float(v) : v \in S}] : k \in lo..n}

InitRep ==
    /\ rep_in \in [alpha : Arrays(RepAlphas, 1, MaxPieces),
                   beta : Arrays(RepBetas, 1, MaxPieces),
                   x : Arrays(RepPoints, 0, MaxPoints)]
    /\ rep_out = [outcome |-> "none", value |-> <<>>]
    /\ LoadIdle /\ AggIdle /\ BagIdle /\ RollIdle /\ StoreIdle
    /\ DateIdle /\ EstIdle /\ TmsIdle

Representor ==
    /\ rep_out.outcome = "none"
    /\ rep_out' = representor(rep_in.alpha, rep_in.beta, rep_in.x)
    /\ UNCHANGED <<rep_in, loadVars, aggVars, bagVars, rollVars, storeVars,
                   dateVars, estVars, tmsVars>>

NextRep == Representor

SpecRep == InitRep /\ [][NextRep]_vars

-----------------------------------------------------------------------------
(***************************************************************************)
(* SpecStore: models are added to a ModelResults and looked up, in any     *)
(* order.                                                                  *)
(***************************************************************************)
\* composite keys (quantile, penalty, eta, context)
StoreKeys ==
    {<<"mean", None, None, None>>, <<"0.5", None, None, None>>,
     <<"mean", "l1", "10000", None>>, <<"0.5", None, None, "z">>}

\* the model of one fit under a key; a later fit has another sample
Fitted(key, fit) ==
    [x |-> <<Float(2 * fit), Float(1)>>,
     y |-> <<Float(20), Float(12)>>,
     frontier |-> <<Float(18 + fit), Float(11)>>,
     alpha |-> <<Float(0), Float(10)>>,
     beta |-> <<Float(fit), Float(-1)>>,
     status |-> 1,
     has_z |-> key[4] # None,
     z |-> IF key[4] = None THEN <<>> ELSE <<Float(1), Float(0)>>,
     lamda |-> IF key[4] = None THEN <<>> ELSE <<Float(3 * fit)>>]

Fits == {1, 2}

InitStore ==
    /\ _models = <<>>
    /\ last_added = <<>>
    /\ store_call = [op |-> "none"]
    /\ LoadIdle /\ AggIdle /\ BagIdle /\ RollIdle /\ RepIdle
    /\ DateIdle /\ EstIdle /\ TmsIdle

AddModel ==
    \E key \in StoreKeys, fit \in Fits :
        /\ _models' = _add_model(_models, Fitted(key, fit), key)
        /\ last_added' = [k \in (DOMAIN last_added) \cup {key} |->
                            IF k = key
                            THEN [model |-> Fitted(key, fit),
                                  overwrote |-> key \in DOMAIN last_added]
                            ELSE last_added[k]]
        /\ store_call' = [op |-> "_add_model", key |-> key, outcome |-> "ok",
                          result |-> NoResult]
        /\ UNCHANGED <<loadVars, aggVars, bagVars, rollVars, repVars,
                       dateVars, estVars, tmsVars>>

\* a getter leaves the store as it is
Get(op, key, r) ==
    /\ store_call' = [op |-> op, key |-> key, outcome |-> r.outcome, result |-> r.result]
    /\ UNCHANGED <<_models, last_added, loadVars, aggVars, bagVars, rollVars, repVars,
                   dateVars, estVars, tmsVars>>

GetFrontier == \E key \in StoreKeys : Get("get_frontier", key, get_frontier(_models, key))

GetCoefficients ==
    \E key \in StoreKeys : Get("get_coefficients", key, get_coefficients(_models, key))

GetNumberOfSegments ==
    \E key \in StoreKeys :
        Get("get_number_of_segments", key, get_number_of_segments(_models, key))

GetEstimate == \E key \in StoreKeys : Get("get_estimate", key, get_estimate(_models, key))

GetProblemStatus ==
    \E key \in StoreKeys : Get("get_problem_status", key, get_problem_status(_models, key))

GetContextEstimate ==
    \E key \in StoreKeys :
        Get("get_context_estimate", key, get_context_estimate(_models, key))

NextStore ==
    \/ AddModel
    \/ GetFrontier
    \/ GetCoefficients
    \/ GetNumberOfSegments
    \/ GetEstimate
    \/ GetProblemStatus
    \/ GetContextEstimate

SpecStore == InitStore /\ [][NextStore]_vars

-----------------------------------------------------------------------------
(***************************************************************************)
(* traffic_data_classes: AggregatedData and BaggedData.  The object is a   *)
(* record: kind ("agg" or "bag"), data (whether a table is held, its       *)
(* number of observations and its columns), quantiles, and models (the     *)
(* _models of its ModelResults).  A quantile is written by its literal.    *)
(* The fit is the optimizer's (pystoned), which returns a model or raises; *)
(* fails is the number of the fit of the call at which it raises, 0 for    *)
(* none.                                                                   *)
(***************************************************************************)
NoData == [present |-> FALSE, n |-> 0, columns |-> {}]

\* __init__: data None, models = ModelResults(), quantiles = []
NewTraffic(kind) == [kind |-> kind, data |-> NoData, quantiles |-> <<>>, models |-> <<>>]

\* the float a quantile literal stands for
QuantileValue(q) ==
    CASE q = "0" -> Float(0)
      [] q = "0.5" -> Norm(1, 2)
      [] q = "0.9" -> Norm(9, 10)
      [] q = "1" -> Float(1)
      [] q = "1.5" -> Norm(3, 2)

\* 0 < q < 1
InUnitInterval(q) == FLt(Float(0), QuantileValue(q)) /\ FLt(QuantileValue(q), Float(1))

\* a check of the first quantile of the list alone
QuantilesOK_first(quantiles) == InUnitInterval(quantiles[1])

\* all([0 < q < 1 for q in quantiles])
QuantilesOK(quantiles) == \A i \in 1..Len(quantiles) : InUnitInterval(quantiles[i])

\* the asserts (and the column lookup) before anything is written: the
\* message of the first that fails, or "ok"
Rejection(self, req) ==
    IF req.model_type \notin {"quantile", "mean"}
    THEN [outcome |-> "AssertionError", message |-> "Model type must be 'quantile' or 'mean'."]
    ELSE IF ~self.data.present
    THEN [outcome |-> "AssertionError", message |-> "No data is available"]
    ELSE IF self.kind = "agg" /\ self.data.n > 3000
    THEN [outcome |-> "AssertionError", message |-> "Data contains more than 3000 observations. Apply bagging first."]
    ELSE IF req.penalty # None /\ req.penalty \notin {"l1", "l2", "l3"}
    THEN [outcome |-> "AssertionError", message |-> "Penalty must be None, 'l1', 'l2' or 'l3'."]
    ELSE IF req.penalty # None /\ req.eta = None
    THEN [outcome |-> "AssertionError", message |-> "eta must be specified if penalty is selected."]
    ELSE IF req.context # None /\ req.context \notin self.data.columns
    THEN (IF self.kind = "agg"
          THEN [outcome |-> "KeyError", message |-> req.context]
          ELSE [outcome |-> "AssertionError", message |-> "Contextual variable is not in data."])
    ELSE IF req.model_type = "quantile" /\ Len(req.quantiles) = 0
    THEN [outcome |-> "AssertionError", message |-> "Quantiles must be a non-empty list."]
    ELSE IF req.model_type = "quantile" /\ ~QuantilesOK(req.quantiles)
    THEN [outcome |-> "AssertionError", message |-> "Quantiles must be between 0 and 1."]
    ELSE [outcome |-> "ok", message |-> ""]

\* [self.quantiles.append(x) for x in quantiles if x not in self.quantiles]
RECURSIVE AppendNew(_, _)
AppendNew(held, quantiles) ==
    IF quantiles = <<>> THEN held
    ELSE AppendNew(IF \E i \in 1..Len(held) : held[i] = Head(quantiles)
                   THEN held ELSE Append(held, Head(quantiles)),
                   Tail(quantiles))

\* self.quantiles.sort()
SortQuantiles(held) ==
    LET ByValue(a, b) == FLt(QuantileValue(a), QuantileValue(b))
    IN  SortSeq(held, ByValue)

\* for q in quantiles: model = models._cqr(...) (or _pcqr, _wcqr, _pwcqr);
\* self.models._add_model(model, q, penalty, eta, context)
RECURSIVE FitLoop(_, _, _, _)
FitLoop(models, req, i, fails) ==
    IF i > Len(req.quantiles) THEN [models |-> models, outcome |-> "ok"]
    ELSE IF i = fails THEN [models |-> models, outcome |-> "Exception"]
    ELSE LET key == <<req.quantiles[i], req.penalty, req.eta, req.context>>
         IN  FitLoop(_add_model(models, Fitted(key, 1), key), req, i + 1, fails)

\* the one fit of the "mean" model
FitMean(models, req, fails) ==
    IF fails = 1 THEN [models |-> models, outcome |-> "Exception"]
    ELSE LET key == <<"mean", req.penalty, req.eta, req.context>>
         IN  [models |-> _add_model(models, Fitted(key, 1), key), outcome |-> "ok"]

estimate_model(self, req, fails) ==
    LET r == Rejection(self, req)
    IN  IF r.outcome # "ok"
        THEN [self |-> self, outcome |-> r.outcome, message |-> r.message]
        ELSE IF req.model_type = "quantile"
        THEN LET quantiles == SortQuantiles(AppendNew(self.quantiles, req.quantiles))
                 fit == FitLoop(self.models, req, 1, fails)
             IN  [self |-> [self EXCEPT !.quantiles = quantiles, !.models = fit.models],
                  outcome |-> fit.outcome, message |-> ""]
        ELSE LET fit == FitMean(self.models, req, fails)
             IN  [self |-> [self EXCEPT !.models = fit.models],
                  outcome |-> fit.outcome, message |-> ""]

(***************************************************************************)
(* SpecEst: an AggregatedData or a BaggedData object is given its table    *)
(* by the station (raw_to_agg, agg_to_bag) and estimate_model is called on *)
(* it, before and after, any number of times.                              *)
(***************************************************************************)
Request(model_type, quantiles, penalty, eta, context) ==
    [model_type |-> model_type, quantiles |-> quantiles, penalty |-> penalty,
     eta |-> eta, context |-> context]

EstRequests ==
    {Request("quantile", <<"0.5">>, None, None, None),
     Request("quantile", <<"0.9", "0.5">>, None, None, None),
     Request("quantile", <<"0.5">>, "l1", "10000", None),
     Request("quantile", <<"0.5", "1.5">>, None, None, None),
     Request("quantile", <<"0", "0.9">>, None, None, None),
     Request("quantile", <<"1">>, None, None, None),
     Request("quantile", <<>>, None, None, None),
     Request("quantile", <<"0.9">>, "l4", "10000", None),
     Request("quantile", <<"0.9">>, "l1", None, None),
     Request("quantile", <<"0.5">>, None, None, "rain"),
     Request("mean", <<>>, None, None, None),
     Request("mean", <<"1.5">>, None, None, None),
     Request("mean", <<>>, "l1", "10000", None),
     Request("mean", <<>>, "l4", "10000", None),
     Request("mean", <<>>, "l2", None, None),
     Request("median", <<"0.5">>, None, None, None)}

\* the fit of the call at which the optimizer raises; 0: none
FailAt == {0, 1, 2}

\* the tables the station hands over: the 576 five-minute buckets of two
\* days, and a table of more than 3000 observations
Tables(kind) ==
    {[present |-> TRUE, n |-> n, columns |-> {"density", "flow"}] :
        n \in IF kind = "agg" THEN {576, 3001} ELSE {576}}

InitEst ==
    /\ traffic \in {NewTraffic(kind) : kind \in {"agg", "bag"}}
    /\ est_call = [outcome |-> "none"]
    /\ LoadIdle /\ AggIdle /\ BagIdle /\ RollIdle /\ RepIdle /\ StoreIdle
    /\ DateIdle /\ TmsIdle

\* the station stores the aggregated (bagged) table in the object
SetData ==
    \E table \in Tables(traffic.kind) :
        /\ ~traffic.data.present
        /\ traffic' = [traffic EXCEPT !.data = table]
        /\ UNCHANGED <<est_call, loadVars, aggVars, bagVars, rollVars, repVars,
                       storeVars, dateVars, tmsVars>>

EstimateModel ==
    \E req \in EstRequests, fails \in FailAt :
        LET r == estimate_model(traffic, req, fails)
        IN  /\ traffic' = r.self
            /\ est_call' = [request |-> req, outcome |-> r.outcome,
                            message |-> r.message]
            /\ UNCHANGED <<loadVars, aggVars, bagVars, rollVars, repVars,
                           storeVars, dateVars, tmsVars>>

NextEst == SetData \/ EstimateModel

SpecEst == InitEst /\ [][NextEst]_vars

-----------------------------------------------------------------------------
(***************************************************************************)
(* fintraffic.py: FintrafficTMS.  tms maps the names of the attributes     *)
(* the methods have set so far to their values; reading an attribute that  *)
(* is not set raises AttributeError.  The constructor's attributes are     *)
(* fixed: station 146, days_list [[2019, 270]], direction 1, tau_list      *)
(* [0.5], and read_several_reports takes its default hours 6 to 20.        *)
(* process.aggregate_road and process.aggregate_lane are the aggregation   *)
(* of the whole road and of each lane over buckets of minutes.             *)
(***************************************************************************)
HasAttr(self, name) == name \in DOMAIN self

\* self.<name> = value, for each field of attrs
SetAttrs(self, attrs) == attrs @@ self

load_raw_data(self, files) ==
    LET r == read_several_reports(files, <<<<Year, 270>>>>, 1, 6, 20, TRUE)
    IN  IF r.outcome # "ok" THEN [self |-> self, outcome |-> r.outcome]
        ELSE [self |-> SetAttrs(self, [raw_data |-> r.df]), outcome |-> "ok"]

\* process.aggregate_road (by_lane FALSE), process.aggregate_lane (TRUE)
aggregate_road_or_lane(t, by_lane, aggregation_time_period) ==
    aggregate(t, by_lane, aggregation_time_period, "min")

\* aggregate_road and aggregate_lane
tms_aggregate(self, by_lane, aggregation_time_period) ==
    IF ~HasAttr(self, "raw_data") THEN [self |-> self, outcome |-> "AttributeError"]
    ELSE LET r == aggregate_road_or_lane(self.raw_data, by_lane, aggregation_time_period)
         IN  IF r.outcome # "ok" THEN [self |-> self, outcome |-> r.outcome]
             ELSE [self |-> SetAttrs(self, [agg_data |-> r.table,
                                            agg_time_period |-> aggregation_time_period,
                                            agg_flow |-> Column(r.table, "flow"),
                                            agg_density |-> Column(r.table, "density")]),
                   outcome |-> "ok"]

\* bagging; process.bagging writes its grid columns on self.agg_data
tms_bagging(self, gridsize_x, gridsize_y) ==
    IF ~HasAttr(self, "agg_data") THEN [self |-> self, outcome |-> "AttributeError"]
    ELSE LET r == bagging(self.agg_data, gridsize_x, gridsize_y)
             written == SetAttrs(self, [agg_data |-> r.agg_data])
         IN  IF r.outcome # "ok" THEN [self |-> written, outcome |-> r.outcome]
             ELSE [self |-> SetAttrs(written,
                                     [bag_data |-> r.table,
                                      gridsize_x |-> gridsize_x,
                                      gridsize_y |-> gridsize_y,
                                      bag_density |-> Column(r.table, "centroid_density"),
                                      bag_flow |-> Column(r.table, "centroid_flow"),
                                      weight |-> Column(r.table, "weight")]),
                   outcome |-> "ok"]

\* weighted_model for tau_list [0.5]: the two dictionaries are emptied, then
\* the model of each tau is built from self.bag_data and optimized; the
\* dictionaries are modelled by their sets of keys
weighted_model(self, fails) ==
    LET emptied == SetAttrs(self, [bagged_model |-> {}, time_weighted |-> {}])
    IN  IF ~HasAttr(self, "bag_data") THEN [self |-> emptied, outcome |-> "AttributeError"]
        ELSE IF fails = 1 THEN [self |-> emptied, outcome |-> "Exception"]
        ELSE [self |-> SetAttrs(self, [bagged_model |-> {"0.5"}, time_weighted |-> {"0.5"}]),
              outcome |-> "ok"]

(***************************************************************************)
(* SpecTMS: the methods of a FintrafficTMS are called in any order.  The   *)
(* file of day 270 holds cars of lane 1 between 6:00 and 6:10.             *)
(***************************************************************************)
MaxTmsRows == 2

TmsFiles ==
    {[d \in Days |-> IF d = 270 THEN BagFile(shape) ELSE NoFile] :
        shape \in UNION {BagShapeLists(n) : n \in 0..MaxTmsRows}}

TmsPeriods == {5, 7}

TmsGrids == {<<1, 1>>, <<2, 2>>}

\* whether the optimizer raises in the fit of the one tau (1) or not (0)
TmsFailAt == {0, 1}

InitTMS ==
    /\ rawfile \in TmsFiles
    /\ df = NoTable /\ call = NoCall
    /\ tms = <<>>
    /\ tms_call = [op |-> "none"]
    /\ AggIdle /\ BagIdle /\ RollIdle /\ RepIdle /\ StoreIdle
    /\ DateIdle /\ EstIdle

\* one method call: the attributes it leaves and its outcome
Method(op, args, r) ==
    /\ tms' = r.self
    /\ tms_call' = [op |-> op, args |-> args, outcome |-> r.outcome]
    /\ UNCHANGED <<loadVars, aggVars, bagVars, rollVars, repVars, storeVars,
                   dateVars, estVars>>

LoadRawData == Method("load_raw_data", <<>>, load_raw_data(tms, rawfile))

AggregateRoad ==
    \E period \in TmsPeriods :
        Method("aggregate_road", <<period>>, tms_aggregate(tms, FALSE, period))

AggregateLane ==
    \E period \in TmsPeriods :
        Method("aggregate_lane", <<period>>, tms_aggregate(tms, TRUE, period))

TmsBagging ==
    \E grid \in TmsGrids : Method("bagging", grid, tms_bagging(tms, grid[1], grid[2]))

WeightedModel ==
    \E fails \in TmsFailAt : Method("weighted_model", <<>>, weighted_model(tms, fails))

NextTMS == LoadRawData \/ AggregateRoad \/ AggregateLane \/ TmsBagging \/ WeightedModel

SpecTMS == InitTMS /\ [][NextTMS]_vars

-----------------------------------------------------------------------------
(***************************************************************************)
(* SpecDate: a (year, day) pair is converted to a date by day_to_date and  *)
(* the date back by date_to_day.                                           *)
(***************************************************************************)
\* a common year and a leap year
DateYears == {2019, 2020}

\* 366 is past the end of the common year
DateDays == 1..366

InitDate ==
    /\ date_call = [op |-> "none"]
    /\ LoadIdle /\ AggIdle /\ BagIdle /\ RollIdle /\ RepIdle /\ StoreIdle
    /\ EstIdle /\ TmsIdle

DayToDate ==
    \E year \in DateYears, day \in DateDays :
        /\ date_call' = [op |-> "day_to_date", year |-> year, day |-> day,
                         date |-> day_to_date(year, day)]
        /\ UNCHANGED <<loadVars, aggVars, bagVars, rollVars, repVars, storeVars,
                       estVars, tmsVars>>

\* date_to_day on the date the last day_to_date returned
DateToDay ==
    /\ date_call.op = "day_to_date"
    /\ date_call' = [date_call EXCEPT !.op = "date_to_day"]
                        @@ [value |-> date_to_day(date_call.date)]
    /\ UNCHANGED <<loadVars, aggVars, bagVars, rollVars, repVars, storeVars,
                   estVars, tmsVars>>

NextDate == DayToDate \/ DateToDay

SpecDate == InitDate /\ [][NextDate]_vars


(***************************************************************************)
(* Claims about utils/load.py, checked under SpecLoad.                     *)
(***************************************************************************)
\* the rows of the files the last call read, in the order read
RECURSIVE InputRows(_)
InputRows(days) ==
    IF days = <<>> THEN <<>> ELSE rawfile[Head(days)[2]] \o InputRows(Tail(days))

\* the columns of row x that the raw row r has
RawPart(x, r) == [c \in DOMAIN r |-> x[c]]

Present(r, t) == \E i \in 1..Len(t) : RawPart(t[i], r) = r

CleaningRan == call.outcome = "ok" /\ call.cleaned >= 1

\* C7: every row output by the record-cleaning step has the requested
\* direction, is of an allowed lane when a lane set is given, has
\* hour_from <= hour <= hour_to, and is not faulty when faulty rows are
\* to be deleted.
C7_CleanedRowsSatisfyRequest ==
    CleaningRan =>
        \A i \in 1..Len(df) :
            /\ df[i].direction = call.direction
            /\ call.lanes.given => df[i].lane \in call.lanes.set
            /\ call.hour_from <= df[i].hour /\ df[i].hour <= call.hour_to
            /\ call.delete_if_faulty => df[i].faulty # 1

\* a cleaning with a lane set and faulty deletion that kept a row
C7_Witness ==
    /\ call.op = "clean" /\ call.lanes.given /\ call.delete_if_faulty
    /\ Len(df) >= 1

IsLoader == call.op \in {"read_report", "read_several_reports"}

Rejected == call.outcome = "AssertionError" /\ call.loads = 0
            /\ call.cleaned = 0 /\ df = NoTable

-----------------------------------------------------------------------------
(***************************************************************************)
(* Properties of aggregate: SpecAgg.                                       *)
(***************************************************************************)
Aggregated == agg_call.outcome = "ok"

\* the (station, date, direction[, lane]) combination of a row
Combination(r) ==
    IF agg_call.by_lane THEN <<r.id, r.date, r.direction, r.lane>>
    ELSE <<r.id, r.date, r.direction>>

Combinations == {Combination(data[i]) : i \in 1..Len(data)}
                    \cup {Combination(agg_data[k]) : k \in 1..Len(agg_data)}

\* the vehicle count an aggregated row's flow stands for
RecoveredCount(r) ==
    FMul(r.flow, FDiv(Float(agg_call.period),
                      Float(IF agg_call.unit = "min" THEN 60 ELSE 3600)))

InputRowsOf(c) == {i \in 1..Len(data) : Combination(data[i]) = c}

OutputRowsOf(c) ==
    LET OfC(r) == Combination(r) = c IN SelectSeq(agg_data, OfC)

\* C1: for every cleaned table, accepted bucket length and unit, within each
\* (station, date, direction[, lane]) combination the vehicle counts
\* recovered from the aggregated rows' flows are the rows' period_flow and
\* sum to exactly the number of cleaned input rows of the combination
C1_CountsRoundTrip ==
    Aggregated =>
        /\ \A k \in 1..Len(agg_data) :
              RecoveredCount(agg_data[k]) = Float(agg_data[k].period_flow)
        /\ \A c \in Combinations :
              LET out == OutputRowsOf(c)
              IN  FSum([k \in 1..Len(out) |-> RecoveredCount(out[k])])
                      = Float(Cardinality(InputRowsOf(c)))

\* an aggregation by lane over seven-minute buckets in which one lane has a
\* bus and a truck in two different buckets, and so two output rows
C1_Witness ==
    /\ Aggregated /\ agg_call.by_lane /\ agg_call.period = 7
    /\ \E c \in Combinations :
          /\ Len(OutputRowsOf(c)) = 2
          /\ \E i, j \in InputRowsOf(c) : data[i].buses = 1 /\ data[j].trucks = 1

\* the bucket index of an input row, by the floor formulas
BucketOf(r) ==
    IF agg_call.unit = "min"
    THEN (r.hour * 60 + r.minute) \div agg_call.period
    ELSE (r.hour * 3600 + r.minute * 60 + r.second) \div agg_call.period

\* the input rows that fall in the bucket of the output row o
MembersOf(o) ==
    {i \in 1..Len(data) : Combination(data[i]) = Combination(o)
                            /\ BucketOf(data[i]) = o.aggregation}

PerHour(count) ==
    Norm(count * (IF agg_call.unit = "min" THEN 60 ELSE 3600), agg_call.period)

\* C10: aggregate puts each row in bucket floor((hour*60 + minute) / L) for
\* minutes and floor((hour*3600 + minute*60 + second) / L) for seconds, and
\* every output row's flow is its member count x 60 / L for minutes and
\* x 3600 / L for seconds, the per-class flows likewise
C10_BucketIndexAndHourlyFlow ==
    Aggregated =>
        /\ \A i \in 1..Len(data) :
              \E k \in 1..Len(agg_data) : i \in MembersOf(agg_data[k])
        /\ \A k \in 1..Len(agg_data) :
              LET o == agg_data[k]
                  m == MembersOf(o)
              IN  /\ m # {}
                  /\ o.flow = PerHour(Cardinality(m))
                  /\ o.cars = PerHour(Cardinality({i \in m : data[i].cars = 1}))
                  /\ o.buses = PerHour(Cardinality({i \in m : data[i].buses = 1}))
                  /\ o.trucks = PerHour(Cardinality({i \in m : data[i].trucks = 1}))

\* an aggregation over seven-second buckets with a bucket of two vehicles
\* passing thirty seconds after the minute, one of them a car
C10_Witness ==
    /\ Aggregated /\ agg_call.unit = "sec" /\ agg_call.period = 7
    /\ \E k \in 1..Len(agg_data) :
          /\ Cardinality(MembersOf(agg_data[k])) = 2
          /\ agg_data[k].period_cars = 1
          /\ \A i \in MembersOf(agg_data[k]) : data[i].second = 30

\* the (combination, bucket) pairs that have an input row
NonEmptyBuckets == {<<Combination(data[i]), BucketOf(data[i])>> : i \in 1..Len(data)}

\* C11: the output rows of aggregate correspond one-to-one to the non-empty
\* (station, date, bucket, direction[, lane]) combinations of the input: no
\* output row has zero members, no combination appears twice, and with a
\* five-minute bucket the rows of one combination within one hour are at
\* most 12
C11_OneRowPerNonEmptyBucket ==
    Aggregated =>
        /\ \A k \in 1..Len(agg_data) : MembersOf(agg_data[k]) # {}
        /\ \A k, l \in 1..Len(agg_data) :
              (Combination(agg_data[k]) = Combination(agg_data[l])
                  /\ agg_data[k].aggregation = agg_data[l].aggregation) => k = l
        /\ {<<Combination(agg_data[k]), agg_data[k].aggregation>> : k \in 1..Len(agg_data)}
              = NonEmptyBuckets
        /\ (agg_call.unit = "min" /\ agg_call.period = 5) =>
              \A k \in 1..Len(agg_data) :
                  Cardinality({l \in 1..Len(agg_data) :
                      /\ Combination(agg_data[l]) = Combination(agg_data[k])
                      /\ agg_data[l].aggregation \div 12
                            = agg_data[k].aggregation \div 12}) <= 12

\* an aggregation by lane of two vehicles of one bucket on two lanes: two
\* output rows for the same bucket
C11_Witness ==
    /\ Aggregated /\ agg_call.by_lane
    /\ Len(data) = 2 /\ Len(agg_data) = 2
    /\ agg_data[1].aggregation = agg_data[2].aggregation
    /\ agg_data[1].date = agg_data[2].date
    /\ agg_data[1].lane # agg_data[2].lane

\* C12: for any aggregated bucket whose space-mean speed is zero, the
\* density of the row is an explicit missing value, never zero and never
\* infinity
C12_ZeroSpeedDensityMissing ==
    Aggregated =>
        \A k \in 1..Len(agg_data) :
            agg_data[k].period_speed = Float(0) => IsNaN(agg_data[k].density)

-----------------------------------------------------------------------------
(***************************************************************************)
(* Properties of bagging: SpecBag.                                         *)
(***************************************************************************)
Bagged == bag_call.outcome = "ok"

PositiveGrid == bag_call.grid_size_x > 0 /\ bag_call.grid_size_y > 0

\* floor of a finite float
Floor(a) == IF a[1] >= 0 THEN a[1] \div a[2] ELSE -((-a[1] + a[2] - 1) \div a[2])

\* the aggregated rows inside the grid cell of the bag b
RowsOfBag(b) ==
    {i \in 1..Len(agg_data) :
        /\ agg_data[i].id = b.id /\ agg_data[i].direction = b.direction
        /\ Floor(agg_data[i].grid_density) = b.grid_density
        /\ Floor(agg_data[i].grid_flow) = b.grid_flow}

\* C2: for every non-empty aggregated table and every pair of positive grid
\* counts the weights of the bagged table sum to 1, the bag sizes sum to
\* the number of aggregated rows, and every aggregated row is a member of
\* exactly one bag
C2_WeightsSumToOne ==
    (Bagged /\ PositiveGrid /\ Len(agg_data) >= 1) =>
        /\ FSum(Column(bag_data, "weight")) = Float(1)
        /\ IntSum(Column(bag_data, "bag_size")) = Len(agg_data)
        /\ \A k \in 1..Len(bag_data) :
              bag_data[k].bag_size = Cardinality(RowsOfBag(bag_data[k]))
        /\ \A i \in 1..Len(agg_data) :
              Cardinality({k \in 1..Len(bag_data) : i \in RowsOfBag(bag_data[k])}) = 1

\* a bagging on a positive grid that puts two of three aggregated rows in
\* one bag and the third in another
C2_Witness ==
    /\ Bagged /\ PositiveGrid
    /\ Len(agg_data) = 3 /\ Len(bag_data) = 2
    /\ \E k \in 1..Len(bag_data) : bag_data[k].bag_size = 2

\* the cell widths of the call
cell_width_density == grid_density_size(agg_data, bag_call.grid_size_x)

cell_width_flow == grid_flow_size(agg_data, bag_call.grid_size_y)

InsideCell(index, width, centroid) ==
    /\ FLe(FMul(Float(index), width), centroid)
    /\ FLe(centroid, FMul(Float(index + 1), width))

CentroidsInside ==
    \A k \in 1..Len(bag_data) :
        /\ InsideCell(bag_data[k].grid_density, cell_width_density,
                      bag_data[k].centroid_density)
        /\ InsideCell(bag_data[k].grid_flow, cell_width_flow,
                      bag_data[k].centroid_flow)

\* C3: for every bag emitted by bagging the centroid lies within or on the
\* boundary of the bag's grid cell: grid_density x cell_width_density <=
\* centroid_density <= (grid_density + 1) x cell_width_density, and
\* likewise for flow
C3_CentroidInsideCell == Bagged => CentroidsInside

\* on a grid of positive counts every centroid is inside its cell
CentroidInsideCellOnPositiveGrid == (Bagged /\ PositiveGrid) => CentroidsInside

\* C20: bagging fails, returning no bagged table, whenever grid_size_x or
\* grid_size_y is zero or negative
C20_RejectsNonPositiveGrid ==
    (bag_call.outcome # "none" /\ ~PositiveGrid) =>
        (bag_call.outcome # "ok" /\ bag_data = NoTable)

\* a table without the two grid columns bagging writes
StripGrid(t) ==
    [i \in 1..Len(t) |-> [c \in (DOMAIN t[i]) \ {"grid_density", "grid_flow"} |-> t[i][c]]]

\* C21: re-running aggregate, or re-running bagging, with the same input
\* table and the same configuration yields an identical output table, also
\* when bagging is applied again to the very table it was applied to
C21_RerunIdentical ==
    [][/\ (bag_call.outcome # "none" /\ bag_call'.rerun) =>
              (bag_data' = bag_data /\ bag_call'.outcome = bag_call.outcome)
       /\ agg_call'.rerun =>
              (agg_call'.again = StripGrid(agg_data) /\ agg_call'.outcome = "ok")]_vars

\* both calls were repeated, bagging on the table that carries the grid
\* columns of its first run, and the bagged table has two bags
C21_Witness ==
    /\ Bagged /\ bag_call.rerun /\ agg_call.rerun
    /\ PositiveGrid
    /\ Len(bag_data) = 2
    /\ \A i \in 1..Len(agg_data) : "grid_density" \in DOMAIN agg_data[i]

\* C22: cleaning, aggregating and bagging leave the table passed in by the
\* caller as it was, with the same columns and the same rows
C22_CallerTableUnchanged ==
    [][rawfile' = rawfile /\ data' = data /\ agg_data' = agg_data]_vars

\* aggregate and the loaders leave the tables they are given as they were
AggregateLeavesInput == [][rawfile' = rawfile /\ data' = data]_vars

\* C29: bagging uses at most grid_size_x cells along the density axis and
\* grid_size_y cells along the flow axis: the cell index of every row lies
\* in 0..grid_size_x-1 for density and in 0..grid_size_y-1 for flow, the
\* rows of the maximum density and of the maximum flow included
C29_CellIndexBelowGridSize ==
    (Bagged /\ PositiveGrid) =>
        \A i \in 1..Len(agg_data) :
            /\ CellIndex(agg_data[i].grid_density) \in 0..(bag_call.grid_size_x - 1)
            /\ CellIndex(agg_data[i].grid_flow) \in 0..(bag_call.grid_size_y - 1)

\* the cell indices lie in 0..grid_size_x and 0..grid_size_y
CellIndexUpToGridSize ==
    (Bagged /\ PositiveGrid) =>
        \A i \in 1..Len(agg_data) :
            /\ CellIndex(agg_data[i].grid_density) \in 0..bag_call.grid_size_x
            /\ CellIndex(agg_data[i].grid_flow) \in 0..bag_call.grid_size_y

-----------------------------------------------------------------------------
(***************************************************************************)
(* Properties of rolling_window: SpecRoll.                                 *)
(***************************************************************************)
Rolled == roll_call.outcome = "ok"

\* the call was made with a positive window width and a positive gap
PositiveWindows ==
    roll_call.outcome # "none" /\ roll_call.window_interval > 0 /\ roll_call.gap_interval > 0

\* the window width W and the gap G of the call, in hundredths of a second
WindowWidth == roll_call.window_interval * size_mult(roll_call.window_interval_unit) * 100

WindowGap == roll_call.gap_interval * size_mult(roll_call.gap_interval_unit) * 100

\* the (year, day, lane) triples of the input
Triples ==
    {<<input_data[i].year, input_data[i].day, input_data[i].lane>> : i \in 1..Len(input_data)}

\* the per-lane rows of one (year, day, lane)
RowsOfTriple(tr) ==
    {k \in 1..Len(roll_call.per_lane) :
        LET r == roll_call.per_lane[k] IN <<r.year, r.day, r.lane>> = tr}

\* the windows [t, t + W) with t = hour_from + k * G that end by hour_to
WindowsWithin ==
    {<<roll_call.hour_from * HOUR + k * WindowGap,
       roll_call.hour_from * HOUR + k * WindowGap + WindowWidth>> :
        k \in {n \in 0..(((roll_call.hour_to - roll_call.hour_from) * HOUR) \div WindowGap) :
                  roll_call.hour_from * HOUR + n * WindowGap + WindowWidth
                      <= roll_call.hour_to * HOUR}}

\* C13: for every (year, day, lane) of the data, rolling_window emits a
\* window [t, t + width) for every start t = hour_from + k * gap whose end
\* t + width does not exceed hour_to, the window that ends exactly at
\* hour_to included, and no other window
C13_WindowsUpToHourTo ==
    (Rolled /\ PositiveWindows) =>
        \A tr \in Triples :
            {<<roll_call.per_lane[k].begin_time, roll_call.per_lane[k].end_time>> :
                k \in RowsOfTriple(tr)} = WindowsWithin

\* the time two windows share, in hundredths of a second
Overlap(r1, r2) ==
    LET lo == IF r1.begin_time > r2.begin_time THEN r1.begin_time ELSE r2.begin_time
        hi == IF r1.end_time < r2.end_time THEN r1.end_time ELSE r2.end_time
    IN  IF hi > lo THEN hi - lo ELSE 0

\* the windows of every (year, day, lane) are disjoint for G >= W, and one
\* window and the next share W - G for G < W
OverlapByWidthMinusGap ==
    \A tr \in Triples :
        IF WindowGap >= WindowWidth
        THEN \A k, l \in RowsOfTriple(tr) :
                k # l => Overlap(roll_call.per_lane[k], roll_call.per_lane[l]) = 0
        ELSE \A k, l \in RowsOfTriple(tr) :
                l = k + 1 => Overlap(roll_call.per_lane[k], roll_call.per_lane[l])
                                = WindowWidth - WindowGap

\* C14: the windows of one (year, day, lane) never overlap when G >= W, and
\* consecutive windows overlap by exactly W - G when G < W
C14_WindowOverlap == Rolled => OverlapByWidthMinusGap

\* for a positive width and a positive gap the overlap is as stated
WindowOverlapOnPositiveGap == (Rolled /\ PositiveWindows) => OverlapByWidthMinusGap

\* the number of vehicles a per-lane row was computed from
CountOf(r) == Len(lane_rows(input_data, r.begin_time, r.end_time, r.lane))

\* C15: the flow of a rolling-window row is the vehicle count of the window
\* times 3600 over the window width in seconds, whichever unit the width
\* was given in and whatever the gap
C15_FlowPerHour ==
    (Rolled /\ PositiveWindows) =>
        \A k \in 1..Len(roll_call.per_lane) :
            roll_call.per_lane[k].flow
                = Norm(CountOf(roll_call.per_lane[k]) * 3600, WindowWidth \div 100)

\* with the width in minutes the flow is the count per hour
FlowPerHourInMinutes ==
    (Rolled /\ PositiveWindows /\ roll_call.window_interval_unit = "min") =>
        \A k \in 1..Len(roll_call.per_lane) :
            roll_call.per_lane[k].flow
                = Norm(CountOf(roll_call.per_lane[k]) * 3600, WindowWidth \div 100)

\* the cleaned rows of the year, day and lane of a per-lane row whose
\* total_time lies in its window
OwnRows(r) ==
    SelectSeq(input_data, LAMBDA x : /\ x.year = r.year /\ x.day = r.day /\ x.lane = r.lane
                                     /\ x.total_time >= r.begin_time
                                     /\ x.total_time < r.end_time)

\* C16: each per-lane row (year, day, lane, begin, end) is computed only
\* from the cleaned rows of that year, day and lane with
\* begin <= total_time < end; the rows of other days never count
C16_RowFromOwnDayOnly ==
    Rolled =>
        \A k \in 1..Len(roll_call.per_lane) :
            LET r == roll_call.per_lane[k]
                own == OwnRows(r)
            IN  /\ r.cars = IntSum(Column(own, "cars"))
                /\ r.buses = IntSum(Column(own, "buses"))
                /\ r.trucks = IntSum(Column(own, "trucks"))
                /\ r.speed = hmean(Column(own, "speed"))
                /\ r.flow = window_flow(Len(own), roll_call.window_interval,
                                        roll_call.window_interval_unit)

\* the per-lane rows that share year, day and window bounds with the row o
LaneRowsOf(o) ==
    SelectSeq(roll_call.per_lane,
              LAMBDA r : /\ r.year = o.year /\ r.day = o.day
                         /\ r.begin_time = o.begin_time /\ r.end_time = o.end_time)

\* C17: with by_lane false the per-lane rows that share (year, day, begin,
\* end) are collapsed into one row: its flow is the sum of the lane flows,
\* its speed the mean of the all-lanes harmonic-mean speed recorded on
\* those rows, and its density that flow over that speed
C17_CollapseAcrossLanes ==
    (Rolled /\ ~roll_call.by_lane) =>
        /\ \A k \in 1..Len(roll_call.per_lane) :
              Cardinality({l \in 1..Len(rolling_data) :
                              LaneRowsOf(rolling_data[l]) # <<>>
                              /\ RollKey(rolling_data[l])
                                    = RollKey(roll_call.per_lane[k])}) = 1
        /\ \A l \in 1..Len(rolling_data) :
              LET o == rolling_data[l]
                  m == LaneRowsOf(o)
              IN  /\ m # <<>>
                  /\ o.flow = FSum(Column(m, "flow"))
                  /\ o.speed = FMean(Column(m, "speed_all_lanes"))
                  /\ o.density = FDiv(o.flow, o.speed)

\* a collapsed row of two lanes with one vehicle each, a car at 90 km/h and
\* a truck at 60 km/h: the all-lanes harmonic mean is 72 km/h, the mean of
\* the lanes' speeds 75 km/h
C17_Witness ==
    /\ Rolled /\ ~roll_call.by_lane
    /\ \E l \in 1..Len(rolling_data) :
          /\ Len(LaneRowsOf(rolling_data[l])) = 2
          /\ rolling_data[l].cars = 1 /\ rolling_data[l].trucks = 1
          /\ rolling_data[l].speed = Float(72)
          /\ rolling_data[l].flow = Float(6)
          /\ rolling_data[l].density = Norm(1, 12)

\* the call was made with units and sizes that the function is to accept
ValidWindows ==
    /\ PositiveWindows
    /\ roll_call.window_interval_unit \in {"min", "sec"}
    /\ roll_call.gap_interval_unit \in {"min", "sec"}

\* C18: rolling_window tolerates a window in which a lane has no vehicle:
\* the call does not fail, the flow of that row is exactly 0, its speed and
\* its density are missing values (not zero), and the rows of the other
\* lanes and windows keep a positive flow, the harmonic mean of their
\* speeds and a finite density
C18_EmptyLaneWindow ==
    /\ ValidWindows => Rolled
    /\ Rolled =>
          \A k \in 1..Len(roll_call.per_lane) :
              LET r == roll_call.per_lane[k]
                  o == IF roll_call.by_lane THEN rolling_data[k] ELSE r
              IN  /\ CountOf(r) = 0 =>
                        /\ o.flow = Float(0)
                        /\ IsNaN(o.speed)
                        /\ IsNaN(o.density)
                  /\ CountOf(r) > 0 =>
                        /\ o.speed = hmean(Column(lane_rows(input_data, r.begin_time,
                                                            r.end_time, r.lane), "speed"))
                        /\ IsFinite(o.speed) /\ IsFinite(o.density)
                        /\ o.flow # Float(0)

\* a returned per-lane table in which lane 2 has no vehicle in a window
\* where lane 1 has one
C18_Witness ==
    /\ Rolled /\ ValidWindows /\ roll_call.by_lane
    /\ \E k, l \in 1..Len(rolling_data) :
          /\ rolling_data[k].lane = 2 /\ rolling_data[l].lane = 1
          /\ rolling_data[k].day = rolling_data[l].day
          /\ rolling_data[k].begin_time = rolling_data[l].begin_time
          /\ rolling_data[k].flow = Float(0) /\ IsNaN(rolling_data[k].speed)
          /\ rolling_data[l].cars = 1 /\ rolling_data[l].speed = Float(90)

\* C19: rolling_window fails whenever the window unit or the gap unit is
\* neither minutes nor seconds, and whenever the window width or the gap is
\* zero or negative; in none of these cases does it return a table
C19_RejectsInvalidWindows ==
    (roll_call.outcome # "none" /\ ~ValidWindows) =>
        (roll_call.outcome # "ok" /\ rolling_data = NoTable)

\* a unit other than minutes and seconds, a width of 0 and a gap of 0 make
\* the call on a table with rows fail
RejectsUnitsAndZero ==
    (/\ roll_call.outcome # "none"
     /\ \/ roll_call.window_interval_unit \notin {"min", "sec"}
        \/ roll_call.gap_interval_unit \notin {"min", "sec"}
        \/ roll_call.window_interval = 0
        \/ roll_call.gap_interval = 0) =>
        (roll_call.outcome # "ok" /\ rolling_data = NoTable)

-----------------------------------------------------------------------------
(***************************************************************************)
(* Properties of representor: SpecRep.                                     *)
(***************************************************************************)
\* alpha[i] + beta[i] * x[j]
Piece(i, j) ==
    FAdd(rep_in.alpha[i], FMul(rep_in.beta[i], rep_in.x[j]))

ExampleInput ==
    rep_in = [alpha |-> <<Float(0), Float(10)>>, beta |-> <<Float(1), Float(-1)>>,
              x |-> <<Float(0), Float(5), Float(10)>>]

\* C4: representor(alpha, beta, x) returns exactly one value per query
\* point, in input order, the value for x[j] being the minimum over all
\* pieces i of alpha[i] + beta[i] * x[j]; for alpha = [0, 10],
\* beta = [1, -1], x = [0, 5, 10] the result is [0, 5, 0]
C4_LowerEnvelope ==
    (rep_out.outcome # "none" /\ Len(rep_in.alpha) = Len(rep_in.beta)) =>
        /\ rep_out.outcome = "ok"
        /\ Len(rep_out.value) = Len(rep_in.x)
        /\ \A j \in 1..Len(rep_in.x) :
              /\ \A i \in 1..Len(rep_in.alpha) : FLe(rep_out.value[j], Piece(i, j))
              /\ \E i \in 1..Len(rep_in.alpha) : rep_out.value[j] = Piece(i, j)
        /\ ExampleInput => rep_out.value = <<Float(0), Float(5), Float(0)>>

\* the call of the example has returned
C4_Witness == ExampleInput /\ rep_out.outcome = "ok"

-----------------------------------------------------------------------------
(***************************************************************************)
(* Properties of ModelResults: SpecStore.                                  *)
(***************************************************************************)
Getters ==
    {"get_frontier", "get_coefficients", "get_number_of_segments", "get_estimate",
     "get_problem_status", "get_context_estimate"}

\* C5: for any store contents and any composite key that was never added,
\* each of the six getters fails with the not-found error, returns no
\* default or empty result, and leaves the store unchanged
C5_GettersFailOnMissingKey ==
    [][(store_call'.op \in Getters /\ store_call'.key \notin DOMAIN last_added)
          => /\ store_call'.outcome = "AssertionError"
             /\ store_call'.result = NoResult
             /\ _models' = _models]_vars

\* get_estimate was refused for a key never added while the store holds
\* models under two other keys
C5_Witness ==
    /\ store_call.op = "get_estimate"
    /\ store_call.key \notin DOMAIN last_added
    /\ store_call.outcome = "AssertionError"
    /\ Cardinality(DOMAIN _models) = 2

\* C6: after any sequence of adds the store holds exactly one model per
\* distinct composite key added, the model of key k being the one most
\* recently added under k (adding a key again overwrites and never fails),
\* and get_frontier for k returns that model's frontier unchanged
C6_AddOverwrites ==
    /\ DOMAIN _models = DOMAIN last_added
    /\ \A k \in DOMAIN last_added : _models[k] = last_added[k].model
    /\ store_call.op = "_add_model" => store_call.outcome = "ok"
    /\ (store_call.op = "get_frontier" /\ store_call.key \in DOMAIN last_added)
          => /\ store_call.outcome = "ok"
             /\ store_call.result = last_added[store_call.key].model.frontier

\* get_frontier has answered for a key whose model was replaced by the
\* second fit
C6_Witness ==
    /\ store_call.op = "get_frontier"
    /\ store_call.key \in DOMAIN last_added
    /\ last_added[store_call.key].overwrote
    /\ store_call.result = Fitted(store_call.key, 2).frontier

\* the get_estimate call that returned a table, and the model it read
Estimated == store_call.op = "get_estimate" /\ store_call.outcome = "ok"

EstimatedModel == last_added[store_call.key].model

\* the rows of a table are the observations of a model taken in the order p
RowsAreSample(rows, m, context, p) ==
    \A i \in 1..Len(rows) :
        /\ rows[i].density = m.x[p[i]]
        /\ rows[i].flow = m.y[p[i]]
        /\ rows[i].flow_estimate = m.frontier[p[i]]
        /\ context # None => rows[i].context = m.z[p[i]]

Orders(n) == {p \in [1..n -> 1..n] : \A i, j \in 1..n : p[i] = p[j] => i = j}

\* C23: get_estimate returns exactly one row per fitted observation, ordered
\* by density ascending, and the density, flow, flow_estimate (and context)
\* of a row belong to one and the same observation: the rows are a
\* permutation of the fitted sample
C23_RowsArePermutationOfSample ==
    Estimated =>
        /\ Len(store_call.result) = Len(EstimatedModel.x)
        /\ \A i \in 1..(Len(store_call.result) - 1) :
              FLe(store_call.result[i].density, store_call.result[i + 1].density)
        /\ \E p \in Orders(Len(EstimatedModel.x)) :
              RowsAreSample(store_call.result, EstimatedModel, store_call.key[4], p)

\* a table was returned for a model with context whose sample was fitted in
\* descending order of density, so that the rows were reordered
C23_Witness ==
    /\ Estimated
    /\ store_call.key[4] # None
    /\ FLt(EstimatedModel.x[2], EstimatedModel.x[1])
    /\ store_call.result[1].density = EstimatedModel.x[2]
    /\ store_call.result[1].context = EstimatedModel.z[2]

\* C24: in every row returned by get_estimate, speed is flow / density and
\* speed_estimate is flow_estimate / density, whatever the order of the
\* fitted sample
C24_SpeedsFromRow ==
    Estimated =>
        \A i \in 1..Len(store_call.result) :
            /\ store_call.result[i].speed =
                  FDiv(store_call.result[i].flow, store_call.result[i].density)
            /\ store_call.result[i].speed_estimate =
                  FDiv(store_call.result[i].flow_estimate, store_call.result[i].density)

\* the speed column alone is computed from the row it stands in
SpeedFromRow ==
    Estimated =>
        \A i \in 1..Len(store_call.result) :
            store_call.result[i].speed =
                FDiv(store_call.result[i].flow, store_call.result[i].density)

-----------------------------------------------------------------------------
(***************************************************************************)
(* Properties of utils/funcs.py: SpecDate.                                 *)
(***************************************************************************)
DaysInYear(year) == IF IsLeap(year) THEN 366 ELSE 365

\* date_to_day has answered for the date of a valid ordinal day
RoundTripped ==
    /\ date_call.op = "date_to_day"
    /\ date_call.day \in 1..DaysInYear(date_call.year)

\* C27: for every year and every valid ordinal day of that year,
\* date_to_day(day_to_date(year, day)) equals (year, day): converting a
\* (year, day) pair to a date and back recovers the pair.  (A value is
\* compared as the tuple of its components, an int having one.)
C27_RoundTripRecoversPair ==
    RoundTripped => <<date_call.value>> = <<date_call.year, date_call.day>>

\* the round trip recovers the ordinal day, without the year
RoundTripRecoversDay == RoundTripped => date_call.value = date_call.day

-----------------------------------------------------------------------------
(***************************************************************************)
(* Properties of AggregatedData and BaggedData: SpecEst.                   *)
(***************************************************************************)
BadQuantile(req) ==
    /\ req.model_type = "quantile"
    /\ \E i \in 1..Len(req.quantiles) : ~InUnitInterval(req.quantiles[i])

BadPenalty(req) == req.penalty # None /\ req.penalty \notin {"l1", "l2", "l3"}

PenaltyWithoutEta(req) == req.penalty # None /\ req.eta = None

\* the step is a call of estimate_model (SetData changes data)
EstimateStep == traffic'.data = traffic.data

ModelledQuantiles == {key[1] : key \in DOMAIN traffic.models} \ {"mean"}

Ascending(qs) ==
    \A i \in 1..(Len(qs) - 1) : FLt(QuantileValue(qs[i]), QuantileValue(qs[i + 1]))

\* C28: after any sequence of estimate_model calls, including calls in
\* which the optimizer fails part-way through a list of quantiles, the
\* quantiles attribute is the ascending, duplicate-free list of the quantile
\* values for which the model store of the object holds a model
C28_QuantilesAreModelled ==
    /\ Ascending(traffic.quantiles)
    /\ {traffic.quantiles[i] : i \in 1..Len(traffic.quantiles)} = ModelledQuantiles

\* the list is ascending and duplicate-free and names every modelled
\* quantile, and possibly others
QuantilesCoverModelled ==
    /\ Ascending(traffic.quantiles)
    /\ ModelledQuantiles \subseteq {traffic.quantiles[i] : i \in 1..Len(traffic.quantiles)}

\* the list is that of the modelled quantiles for as long as no fit raised
QuantilesModelledUnlessFitRaised ==
    [][(C28_QuantilesAreModelled /\ est_call'.outcome # "Exception")
          => C28_QuantilesAreModelled']_vars

\* estimate_model on an object without data is refused by its assert with
\* the message that no data is available, and writes nothing
EstimateBeforeDataRefused ==
    [][(/\ EstimateStep
        /\ ~traffic.data.present
        /\ est_call'.request.model_type \in {"quantile", "mean"})
          => /\ est_call'.outcome = "AssertionError"
             /\ est_call'.message = "No data is available"
             /\ traffic' = traffic]_vars

-----------------------------------------------------------------------------
(***************************************************************************)
(* Properties of FintrafficTMS: SpecTMS.                                   *)
(***************************************************************************)
\* the attribute a stage reads from the stage before it
Prerequisite(op) ==
    CASE op \in {"aggregate_road", "aggregate_lane"} -> "raw_data"
      [] op = "bagging" -> "agg_data"
      [] op = "weighted_model" -> "bag_data"

\* the step calls a stage whose preceding stage has not produced its data
Premature ==
    /\ tms_call'.op \in {"aggregate_road", "aggregate_lane", "bagging", "weighted_model"}
    /\ ~HasAttr(tms, Prerequisite(tms_call'.op))

\* C26: in any order of pipeline calls, invoking a stage before the
\* preceding stage has produced its data is rejected with an explicit
\* missing-prerequisite error (an assertion of the stage, as estimate_model
\* has for its data) and changes no state of the station
C26_PrematureStageRejected ==
    [][Premature => (tms_call'.outcome = "AssertionError" /\ tms' = tms)]_vars

\* a premature stage fails, on the read of the attribute that is not set
PrematureStageFails == [][Premature => tms_call'.outcome = "AttributeError"]_vars

\* premature aggregation and bagging set no attribute
PrematureAggregationAndBaggingWriteNothing ==
    [][(Premature /\ tms_call'.op # "weighted_model") => tms' = tms]_vars

\* C30: after any sequence of load_raw_data, aggregate_road/aggregate_lane
\* and bagging calls, whenever bag_data exists it was derived from the
\* current agg_data with the recorded gridsize_x and gridsize_y, and
\* agg_time_period is the bucket length the current agg_data was built with
C30_BagFromCurrentAggregation ==
    /\ HasAttr(tms, "bag_data")
          => tms.bag_data =
                bagging(StripGrid(tms.agg_data), tms.gridsize_x, tms.gridsize_y).table
    /\ HasAttr(tms, "agg_data")
          => \E by_lane \in BOOLEAN :
                StripGrid(tms.agg_data) =
                    aggregate_road_or_lane(tms.raw_data, by_lane, tms.agg_time_period).table

\* agg_time_period is the bucket length of the current agg_data
AggTimePeriodCurrent ==
    HasAttr(tms, "agg_data")
          => \E by_lane \in BOOLEAN :
                StripGrid(tms.agg_data) =
                    aggregate_road_or_lane(tms.raw_data, by_lane, tms.agg_time_period).table

\* bag_data is the bagging of the current agg_data right after bagging
BagCurrentAfterBagging ==
    (tms_call.op = "bagging" /\ tms_call.outcome = "ok")
          => tms.bag_data =
                bagging(StripGrid(tms.agg_data), tms.gridsize_x, tms.gridsize_y).table

=============================================================================
